---------------------------- MODULE Spec2Model ----------------------------
(***************************************************************************)
(* A model of the Express middleware StrictHttpFirewall                    *)
(* (src/src/strict-http-firewall.ts, the class that starts at line 591).   *)
(*                                                                         *)
(* A JavaScript string is a sequence of one-character tokens, so that      *)
(* indexOf, lastIndexOf, charAt, toUpperCase and the code-unit comparison  *)
(* of the printable-ASCII scan are computed as the code computes them.     *)
(* Characters that have no printable form are named: "NUL", "LF", "CR",    *)
(* "LS" (U+2028), "PS" (U+2029), "U0019" (U+0019), "U3042" (U+3042).       *)
(* A value that is undefined is the one-token sequence Undefined, which is *)
(* no string over the alphabet.                                            *)
(***************************************************************************)
EXTENDS Integers, Sequences, FiniteSets, TLC

VARIABLES
    options,    \* the HttpFirewallOptions the instance was constructed from
    fw,         \* the fields of the StrictHttpFirewall instance
    req,        \* req[i]: the Request of evaluation i
    pc,         \* pc[i]: the link of the promise chain evaluation i is at
    res,        \* res[i]: what was written to the Response of evaluation i
    nextCalls,  \* nextCalls[i]: how often next() was invoked
    error,      \* error[i]: the error the chain of evaluation i rejected with
    log,        \* the lines written with console.warn
    hostTests,  \* hostTests[i]: how often allowedHostnames.test was invoked
    fieldTests, \* fieldTests[i]: how often a header or parameter predicate
                \* was invoked
    gates,      \* gates[i]: the checks that were run, in the order they ran
    predicates  \* the Predicate objects built with of, and, or and not;
                \* predicates[k] is referred to by its index k

vars ==
    <<options, fw, req, pc, res, nextCalls, error, log, hostTests, fieldTests,
      gates, predicates>>

---------------------------------------------------------------------------
(* Bounds of the model.                                                    *)

\* ordinary characters put in front of the fragment a generated URL carries
MaxPad == 1
\* allowX toggles that are true together in the options of SpecBlocklist
MaxToggles == 1

\* the longest string put in a field that isNormalized reads
MaxPathLen == 4

\* the longest url put before the printable-characters check alone
MaxUrlLen == 2

\* how many requests one middleware or one instance is given
MaxEvaluations == 2

---------------------------------------------------------------------------
(* JavaScript strings.                                                     *)

Undefined == <<"undefined">>

\* an option of type string[] that is not given
UndefinedList == <<Undefined>>

\* the UTF-16 code unit of every character the model uses
CharCode ==
    [c \in {"NUL", "LF", "CR", "U0019", "U001F", " ", "~", "DEL",
            "LS", "PS", "U3042", "/", ".", ";",
            "%", "\\", "?", "0", "2", "3", "5", "a", "b", "c", "d", "e",
            "f", "g", "o", "p", "r", "s", "t", "x", "u", "4",
            "A", "B", "C", "D", "E",
            "F", "G", "H", "I", "L", "N", "O", "P", "R", "S", "T", "U",
            "X"} |->
       CASE c = "NUL" -> 0      [] c = "LF" -> 10     [] c = "CR" -> 13
         [] c = "U0019" -> 25   [] c = "LS" -> 8232   [] c = "PS" -> 8233
         [] c = "U3042" -> 12354
         [] c = "U001F" -> 31   [] c = " " -> 32      [] c = "~" -> 126
         [] c = "DEL" -> 127
         [] c = "%" -> 37  [] c = "." -> 46  [] c = "/" -> 47
         [] c = "0" -> 48  [] c = "2" -> 50  [] c = "3" -> 51
         [] c = "5" -> 53  [] c = ";" -> 59  [] c = "?" -> 63
         [] c = "A" -> 65  [] c = "B" -> 66  [] c = "C" -> 67
         [] c = "D" -> 68  [] c = "E" -> 69  [] c = "F" -> 70
         [] c = "G" -> 71  [] c = "H" -> 72  [] c = "I" -> 73
         [] c = "L" -> 76  [] c = "N" -> 78  [] c = "O" -> 79
         [] c = "P" -> 80  [] c = "R" -> 82  [] c = "S" -> 83
         [] c = "T" -> 84  [] c = "U" -> 85  [] c = "X" -> 88
         [] c = "\\" -> 92
         [] c = "a" -> 97  [] c = "b" -> 98  [] c = "c" -> 99
         [] c = "d" -> 100 [] c = "e" -> 101 [] c = "f" -> 102
         [] c = "g" -> 103 [] c = "o" -> 111 [] c = "p" -> 112
         [] c = "r" -> 114 [] c = "s" -> 115 [] c = "t" -> 116
         [] c = "x" -> 120 [] c = "u" -> 117 [] c = "4" -> 52]

\* String.prototype.toUpperCase on one character: a lower-case ASCII letter
\* is moved to its upper-case code unit, every other character is kept
ToUpperChar(c) ==
    IF CharCode[c] >= 97 /\ CharCode[c] <= 122
    THEN CHOOSE u \in DOMAIN CharCode : CharCode[u] = CharCode[c] - 32
    ELSE c

toUpperCase(s) == [k \in 1..Len(s) |-> ToUpperChar(s[k])]

\* String.prototype.indexOf(sub): the least 0-based position at which sub
\* occurs in s, -1 when there is none (the empty string occurs at 0)
indexOf(s, sub) ==
    LET hits == {k \in 0..(Len(s) - Len(sub)) :
                    \A j \in 1..Len(sub) : s[k + j] = sub[j]}
    IN  IF hits = {} THEN -1
        ELSE CHOOSE k \in hits : \A h \in hits : k <= h

\* String.prototype.lastIndexOf(ch, from): the greatest 0-based position
\* <= from that holds the character ch, -1 when there is none
lastIndexOf(s, ch, from) ==
    LET hits == {k \in 0..(Len(s) - 1) : k <= from /\ s[k + 1] = ch}
    IN  IF hits = {} THEN -1
        ELSE CHOOSE k \in hits : \A h \in hits : k >= h

\* String.prototype.charAt(k), 0-based; the empty string out of range
charAt(s, k) == IF k >= 0 /\ k < Len(s) THEN s[k + 1] ELSE ""

\* Array.prototype.indexOf(item) on an array of strings, 0-based
arrayIndexOf(arr, item) ==
    LET hits == {k \in 1..Len(arr) : arr[k] = item}
    IN  IF hits = {} THEN -1
        ELSE (CHOOSE k \in hits : \A h \in hits : k <= h) - 1

\* Array.prototype.splice(index, 1) with 0 <= index < length
splice1(arr, index) ==
    SubSeq(arr, 1, index) \o SubSeq(arr, index + 2, Len(arr))

RECURSIVE Flatten(_)
Flatten(ss) == IF ss = <<>> THEN <<>> ELSE Head(ss) \o Flatten(Tail(ss))

Range(f) == {f[k] : k \in DOMAIN f}

---------------------------------------------------------------------------
(* The pre-defined constraints of StrictHttpFirewall.                      *)

ALLOW_ANY_HTTP_METHOD == <<>>
ENCODED_PERCENT == <<"%", "2", "5">>
PERCENT == <<"%">>
FORBIDDEN_ENCODED_PERIOD == << <<"%", "2", "e">>, <<"%", "2", "E">> >>
FORBIDDEN_SEMICOLON == << <<";">>, <<"%", "3", "b">>, <<"%", "3", "B">> >>
FORBIDDEN_FORWARDSLASH == << <<"%", "2", "f">>, <<"%", "2", "F">> >>
FORBIDDEN_DOUBLE_FORWARDSLASH ==
    << <<"/", "/">>,
       <<"%", "2", "f", "%", "2", "f">>, <<"%", "2", "f", "%", "2", "F">>,
       <<"%", "2", "F", "%", "2", "f">>, <<"%", "2", "F", "%", "2", "F">> >>
FORBIDDEN_BACKSLASH == << <<"\\">>, <<"%", "5", "c">>, <<"%", "5", "C">> >>
FORBIDDEN_NULL == << <<"NUL">>, <<"%", "0", "0">> >>
FORBIDDEN_LF == << <<"LF">>, <<"%", "0", "a">>, <<"%", "0", "A">> >>
FORBIDDEN_CR == << <<"CR">>, <<"%", "0", "d">>, <<"%", "0", "D">> >>
FORBIDDEN_LINE_SEPARATOR == << <<"LS">> >>
FORBIDDEN_PARAGRAPH_SEPARATOR == << <<"PS">> >>

GET == <<"G", "E", "T">>
HEAD == <<"H", "E", "A", "D">>
POST == <<"P", "O", "S", "T">>
PUT == <<"P", "U", "T">>
PATCH == <<"P", "A", "T", "C", "H">>
DELETE == <<"D", "E", "L", "E", "T", "E">>
OPTIONS == <<"O", "P", "T", "I", "O", "N", "S">>
TRACE == <<"T", "R", "A", "C", "E">>

createDefaultAllowedHttpMethods ==
    <<DELETE, GET, HEAD, OPTIONS, PATCH, POST, PUT>>

---------------------------------------------------------------------------
(* Predicate<T>: a wrapped boolean function.  The functions the model      *)
(* wraps are named; FnResult gives what each returns: "true", "false", or  *)
(* "throw" when the function throws.                                       *)

LOCALHOST == <<"l", "o", "c", "a", "l", "h", "o", "s", "t">>
WWW_EXAMPLE_COM ==
    <<"w", "w", "w", ".", "e", "x", "a", "m", "p", "l", "e", ".", "c", "o", "m">>
EVIL_TEST == <<"e", "v", "i", "l", ".", "t", "e", "s", "t">>

EVIL == <<"e", "v", "i", "l">>

FnResult(fn, x) ==
    CASE fn = "any" -> "true"
      [] fn = "isLocalhost" -> IF x = LOCALHOST THEN "true" ELSE "false"
      [] fn = "isExampleCom" ->
            IF x = WWW_EXAMPLE_COM THEN "true" ELSE "false"
      [] fn = "faulty" -> "throw"
      [] fn = "faultyNull" -> "throw"
      [] fn = "notEvil" -> IF x = EVIL THEN "false" ELSE "true"

\* null, as the value a chain rejected with
Null == [reason |-> "null", value |-> Undefined]

\* the TypeError of reading a property of null
TypeError == [reason |-> "type-error", value |-> Undefined]

\* what a function that throws throws for x: "faultyNull" does `throw null`,
\* "faulty" throws an Error
Thrown(fn, x) ==
    IF fn = "faultyNull" THEN Null
    ELSE [reason |-> "predicate-fault", value |-> x]

PredicateOf(fn) == [kind |-> "of", condition |-> fn]

\* Predicate.test
PredicateTest(p, x) == FnResult(p.condition, x)

\* new Predicate<string>((hostName) => true)
AnyHostname == PredicateOf("any")

\* the initial predicate of the header and parameter-name fields: the test
\* of a pattern on the name or value.  No operation of the class tests it.
ASSIGNED_AND_NOT_ISO_CONTROL_PREDICATE ==
    PredicateOf("assignedAndNotIsoControl")

\* an option of type Predicate that is not given
UndefinedPredicate == [kind |-> "undefined", condition |-> "none"]

---------------------------------------------------------------------------
(* The combinators of Predicate<T>.  A Predicate object holds its          *)
(* condition: a function of the caller, or the arrow function that and, or *)
(* or not wrapped, which refers to `this` and to the input it was given.   *)
(* An input is a Predicate object or a raw function.                       *)

MaxPredicates == 3

\* the functions of the caller
PredicateFns == {"isLocalhost", "isExampleCom", "notEvil", "faulty"}

\* the values the predicates are tested on
PredicateValues == {LOCALHOST, WWW_EXAMPLE_COM, EVIL_TEST, EVIL}

PredicateInput(k) == [ref |-> "predicate", id |-> k, fn |-> "none"]
FnInput(fn) == [ref |-> "fn", id |-> 0, fn |-> fn]
NoInput == [ref |-> "none", id |-> 0, fn |-> "none"]

\* the arrow functions of and, or, not, and a function of the caller
Condition(body, fn, this, input) ==
    [body |-> body, fn |-> fn, this |-> this, input |-> input]

\* constructor(private condition)
NewPredicate(condition) == [condition |-> condition]

\* Predicate.isInstance: the input itself when it is a Predicate, and
\* Predicate.of(input) otherwise
isInstance(heap, input) ==
    IF input.ref = "predicate" THEN heap[input.id]
    ELSE NewPredicate(Condition("fn", input.fn, 0, NoInput))

\* p.test(x) = p.condition(x); && and || leave their right operand alone
\* when the left one decides, and what an operand throws goes through
RECURSIVE test(_, _, _)
test(heap, p, x) ==
    LET c == p.condition
    IN  IF c.body = "fn" THEN FnResult(c.fn, x)
        ELSE LET left == test(heap, heap[c.this], x)
             IN  CASE c.body = "and" ->
                        IF left = "true"
                        THEN test(heap, isInstance(heap, c.input), x)
                        ELSE left
                   [] c.body = "or" ->
                        IF left = "false"
                        THEN test(heap, isInstance(heap, c.input), x)
                        ELSE left
                   [] c.body = "not" ->
                        IF left = "throw" THEN "throw"
                        ELSE IF left = "true" THEN "false" ELSE "true"

\* Predicate.of(condition)
Of(fn) ==
    /\ Len(predicates) < MaxPredicates
    /\ predicates' =
            Append(predicates, NewPredicate(Condition("fn", fn, 0, NoInput)))
    /\ UNCHANGED <<options, fw, req, pc, res, nextCalls, error, log,
                   hostTests, fieldTests, gates>>

\* And with || in the arrow function
AndWithOr(p, input) ==
    /\ Len(predicates) < MaxPredicates
    /\ predicates' =
            Append(predicates, NewPredicate(Condition("or", "none", p, input)))
    /\ UNCHANGED <<options, fw, req, pc, res, nextCalls, error, log,
                   hostTests, fieldTests, gates>>

\* predicates[p].and(input)
And(p, input) ==
    /\ Len(predicates) < MaxPredicates
    /\ predicates' =
            Append(predicates, NewPredicate(Condition("and", "none", p, input)))
    /\ UNCHANGED <<options, fw, req, pc, res, nextCalls, error, log,
                   hostTests, fieldTests, gates>>

\* predicates[p].or(input)
Or(p, input) ==
    /\ Len(predicates) < MaxPredicates
    /\ predicates' =
            Append(predicates, NewPredicate(Condition("or", "none", p, input)))
    /\ UNCHANGED <<options, fw, req, pc, res, nextCalls, error, log,
                   hostTests, fieldTests, gates>>

\* predicates[p].not()
Not(p) ==
    /\ Len(predicates) < MaxPredicates
    /\ predicates' =
            Append(predicates, NewPredicate(Condition("not", "none", p, NoInput)))
    /\ UNCHANGED <<options, fw, req, pc, res, nextCalls, error, log,
                   hostTests, fieldTests, gates>>

\* what and and or may be given: a Predicate built before, or a function
PredicateInputs ==
    {PredicateInput(k) : k \in DOMAIN predicates}
        \cup {FnInput(fn) : fn \in PredicateFns}

---------------------------------------------------------------------------
(* Construction.  The two blocklists are the record                        *)
(* [encoded |-> ..., decoded |-> ...]; the constructor's statements are    *)
(* applied to it in the order of the code.                                 *)

Toggles ==
    {"allowSemicolon", "allowUrlEncodedSlash", "allowUrlEncodedDoubleSlash",
     "allowUrlEncodedPeriod", "allowBackSlash", "allowNull",
     "allowUrlEncodedPercent", "allowUrlEncodedCarriageReturn",
     "allowUrlEncodedLineFeed", "allowUrlEncodedParagraphSeparator",
     "allowUrlEncodedLineSeparator"}

\* removeItems with splice(index + 1, 1): the element after the one found is
\* removed (none when the one found is the last)
RECURSIVE removeItemsOffByOne(_, _)
removeItemsOffByOne(originalArray, itemsTobeRemoved) ==
    IF itemsTobeRemoved = <<>> THEN originalArray
    ELSE LET item == Head(itemsTobeRemoved)
             index == arrayIndexOf(originalArray, item)
         IN  IF index # -1 /\ index + 1 < Len(originalArray)
             THEN removeItemsOffByOne(splice1(originalArray, index + 1),
                                      Tail(itemsTobeRemoved))
             ELSE removeItemsOffByOne(originalArray, Tail(itemsTobeRemoved))

\* removeItems(originalArray, itemsTobeRemoved): for every item, in order,
\* the first element equal to it is spliced out, if there is one
RECURSIVE removeItems(_, _)
removeItems(originalArray, itemsTobeRemoved) ==
    IF itemsTobeRemoved = <<>> THEN originalArray
    ELSE LET item == Head(itemsTobeRemoved)
             index == arrayIndexOf(originalArray, item)
         IN  IF index # -1
             THEN removeItems(splice1(originalArray, index),
                              Tail(itemsTobeRemoved))
             ELSE removeItems(originalArray, Tail(itemsTobeRemoved))

urlBlocklistsAddAll(b, values) ==
    [encoded |-> b.encoded \o values, decoded |-> b.decoded \o values]

\* urlBlocklistsRemoveAll that leaves the decoded list alone
urlBlocklistsRemoveAllEncoded(b, values) ==
    [encoded |-> removeItems(b.encoded, values), decoded |-> b.decoded]

urlBlocklistsRemoveAll(b, values) ==
    [encoded |-> removeItems(b.encoded, values),
     decoded |-> removeItems(b.decoded, values)]

\* BaselineBlocklists without the push of PERCENT to the decoded list
BaselineBlocklistsWithoutPercent ==
    LET b0 == [encoded |-> <<>>, decoded |-> <<>>]
        b1 == urlBlocklistsAddAll(b0, FORBIDDEN_SEMICOLON)
        b2 == urlBlocklistsAddAll(b1, FORBIDDEN_FORWARDSLASH)
        b3 == urlBlocklistsAddAll(b2, FORBIDDEN_DOUBLE_FORWARDSLASH)
        b4 == urlBlocklistsAddAll(b3, FORBIDDEN_BACKSLASH)
        b5 == urlBlocklistsAddAll(b4, FORBIDDEN_NULL)
        b6 == urlBlocklistsAddAll(b5, FORBIDDEN_LF)
        b7 == urlBlocklistsAddAll(b6, FORBIDDEN_CR)
    IN  [encoded |-> b7.encoded \o <<ENCODED_PERCENT>>
                        \o FORBIDDEN_ENCODED_PERIOD
                        \o FORBIDDEN_LINE_SEPARATOR
                        \o FORBIDDEN_PARAGRAPH_SEPARATOR,
         decoded |-> b7.decoded]

\* lines 625-636: the baseline of the two lists
BaselineBlocklists ==
    LET b0 == [encoded |-> <<>>, decoded |-> <<>>]
        b1 == urlBlocklistsAddAll(b0, FORBIDDEN_SEMICOLON)
        b2 == urlBlocklistsAddAll(b1, FORBIDDEN_FORWARDSLASH)
        b3 == urlBlocklistsAddAll(b2, FORBIDDEN_DOUBLE_FORWARDSLASH)
        b4 == urlBlocklistsAddAll(b3, FORBIDDEN_BACKSLASH)
        b5 == urlBlocklistsAddAll(b4, FORBIDDEN_NULL)
        b6 == urlBlocklistsAddAll(b5, FORBIDDEN_LF)
        b7 == urlBlocklistsAddAll(b6, FORBIDDEN_CR)
    IN  [encoded |-> b7.encoded \o <<ENCODED_PERCENT>>
                        \o FORBIDDEN_ENCODED_PERIOD
                        \o FORBIDDEN_LINE_SEPARATOR
                        \o FORBIDDEN_PARAGRAPH_SEPARATOR,
         decoded |-> b7.decoded \o <<PERCENT>>]

\* lines 651-694: one `if (options.allowX === true)` statement
ApplyToggle(b, o, toggle) ==
    IF toggle \notin o.allow THEN b
    ELSE CASE toggle = "allowSemicolon" ->
                urlBlocklistsRemoveAll(b, FORBIDDEN_SEMICOLON)
           [] toggle = "allowUrlEncodedSlash" ->
                urlBlocklistsRemoveAll(b, FORBIDDEN_FORWARDSLASH)
           [] toggle = "allowUrlEncodedDoubleSlash" ->
                urlBlocklistsRemoveAll(b, FORBIDDEN_DOUBLE_FORWARDSLASH)
           [] toggle = "allowUrlEncodedPeriod" ->
                [b EXCEPT !.encoded =
                    removeItems(b.encoded, FORBIDDEN_ENCODED_PERIOD)]
           [] toggle = "allowBackSlash" ->
                urlBlocklistsRemoveAll(b, FORBIDDEN_BACKSLASH)
           [] toggle = "allowNull" ->
                urlBlocklistsRemoveAll(b, FORBIDDEN_NULL)
           [] toggle = "allowUrlEncodedPercent" ->
                [encoded |-> removeItems(b.encoded, <<ENCODED_PERCENT>>),
                 decoded |-> removeItems(b.decoded, <<PERCENT>>)]
           [] toggle = "allowUrlEncodedCarriageReturn" ->
                urlBlocklistsRemoveAll(b, FORBIDDEN_CR)
           [] toggle = "allowUrlEncodedLineFeed" ->
                urlBlocklistsRemoveAll(b, FORBIDDEN_LF)
           [] toggle = "allowUrlEncodedParagraphSeparator" ->
                [b EXCEPT !.encoded =
                    removeItems(b.encoded, FORBIDDEN_PARAGRAPH_SEPARATOR)]
           [] toggle = "allowUrlEncodedLineSeparator" ->
                [b EXCEPT !.encoded =
                    removeItems(b.encoded, FORBIDDEN_LINE_SEPARATOR)]

\* the order in which the constructor reads the toggles
ToggleOrder ==
    <<"allowSemicolon", "allowUrlEncodedSlash", "allowUrlEncodedDoubleSlash",
      "allowUrlEncodedPeriod", "allowBackSlash", "allowNull",
      "allowUrlEncodedPercent", "allowUrlEncodedCarriageReturn",
      "allowUrlEncodedLineFeed", "allowUrlEncodedParagraphSeparator",
      "allowUrlEncodedLineSeparator">>

\* the statements of lines 651-694 in their order; from two empty lists the
\* statements that are left remove nothing
RECURSIVE ApplyToggles(_, _, _)
ApplyToggles(b, o, order) ==
    IF order = <<>> \/ b = [encoded |-> <<>>, decoded |-> <<>>] THEN b
    ELSE ApplyToggles(ApplyToggle(b, o, Head(order)), o, Tail(order))

\* AppendBlockLists with the caller's lists assigned instead of pushed
AssignBlockLists(b, o) ==
    [encoded |-> IF o.encodedUrlBlockList # UndefinedList
                    /\ Len(o.encodedUrlBlockList) # 0
                 THEN o.encodedUrlBlockList ELSE b.encoded,
     decoded |-> IF o.decodedUrlBlockList # UndefinedList
                    /\ Len(o.decodedUrlBlockList) # 0
                 THEN o.decodedUrlBlockList ELSE b.decoded]

\* lines 716-722: the caller's extra entries are pushed after the toggles
AppendBlockLists(b, o) ==
    [encoded |-> IF o.encodedUrlBlockList # UndefinedList
                    /\ Len(o.encodedUrlBlockList) # 0
                 THEN b.encoded \o o.encodedUrlBlockList ELSE b.encoded,
     decoded |-> IF o.decodedUrlBlockList # UndefinedList
                    /\ Len(o.decodedUrlBlockList) # 0
                 THEN b.decoded \o o.decodedUrlBlockList ELSE b.decoded]

\* MethodSet with an empty allowedHttpMethods list stored as it is given
MethodSetKeepsEmptyList(o) ==
    IF o.allowedHttpMethods # UndefinedList
    THEN [allowAny |-> FALSE, items |-> o.allowedHttpMethods]
    ELSE IF o.unsafeAllowAnyHttpMethod
    THEN [allowAny |-> TRUE, items |-> ALLOW_ANY_HTTP_METHOD]
    ELSE [allowAny |-> FALSE, items |-> createDefaultAllowedHttpMethods]

\* lines 643-649.  allowedHttpMethods is compared with ALLOW_ANY_HTTP_METHOD
\* by reference in rejectForbiddenHttpMethod: allowAny says whether the
\* field holds that very array.
MethodSet(o) ==
    LET first == IF o.unsafeAllowAnyHttpMethod
                 THEN [allowAny |-> TRUE, items |-> ALLOW_ANY_HTTP_METHOD]
                 ELSE [allowAny |-> FALSE,
                       items |-> createDefaultAllowedHttpMethods]
    IN  IF o.allowedHttpMethods # UndefinedList
        THEN IF Len(o.allowedHttpMethods) # 0
             THEN [allowAny |-> FALSE, items |-> o.allowedHttpMethods]
             ELSE [allowAny |-> TRUE, items |-> ALLOW_ANY_HTTP_METHOD]
        ELSE first

\* options of which every field is undefined; NoOptions is `undefined`
\* passed for the options themselves
EmptyOptions ==
    [defined |-> TRUE, logToConsole |-> FALSE,
     unsafeAllowAnyHttpMethod |-> FALSE, allowedHttpMethods |-> UndefinedList,
     allow |-> {}, allowedHostnames |-> UndefinedPredicate,
     allowedHeaderNames |-> UndefinedPredicate,
     allowedHeaderValues |-> UndefinedPredicate,
     allowedParameterNames |-> UndefinedPredicate,
     allowedParameterValues |-> UndefinedPredicate,
     decodedUrlBlockList |-> UndefinedList,
     encodedUrlBlockList |-> UndefinedList]

NoOptions == [EmptyOptions EXCEPT !.defined = FALSE]

\* lines 696-710: a predicate of the options is stored when it is given,
\* the field's initial predicate stays otherwise
StoredPredicate(given, initial) ==
    IF given # UndefinedPredicate THEN given ELSE initial

\* new StrictHttpFirewall(options)
Constructor(o) ==
    IF ~o.defined
    THEN [logToConsole |-> FALSE,
          blocklists |-> BaselineBlocklists,
          allowedHttpMethods |->
              [allowAny |-> FALSE, items |-> createDefaultAllowedHttpMethods],
          allowedHostnames |-> AnyHostname,
          allowedHeaderNames |-> ASSIGNED_AND_NOT_ISO_CONTROL_PREDICATE,
          allowedHeaderValues |-> ASSIGNED_AND_NOT_ISO_CONTROL_PREDICATE,
          allowedParameterNames |-> ASSIGNED_AND_NOT_ISO_CONTROL_PREDICATE,
          allowedParameterValues |-> PredicateOf("any")]
    ELSE [logToConsole |-> o.logToConsole,
          blocklists |->
              AppendBlockLists(
                  ApplyToggles(BaselineBlocklists, o, ToggleOrder), o),
          allowedHttpMethods |-> MethodSet(o),
          allowedHostnames |->
              IF o.allowedHostnames # UndefinedPredicate
              THEN o.allowedHostnames
              ELSE AnyHostname,
          allowedHeaderNames |->
              StoredPredicate(o.allowedHeaderNames,
                              ASSIGNED_AND_NOT_ISO_CONTROL_PREDICATE),
          allowedHeaderValues |->
              StoredPredicate(o.allowedHeaderValues,
                              ASSIGNED_AND_NOT_ISO_CONTROL_PREDICATE),
          allowedParameterNames |->
              StoredPredicate(o.allowedParameterNames,
                              ASSIGNED_AND_NOT_ISO_CONTROL_PREDICATE),
          allowedParameterValues |->
              StoredPredicate(o.allowedParameterValues, PredicateOf("any"))]

---------------------------------------------------------------------------
(* The checks of a request.                                                *)

\* valueContains(value, contains)
valueContains(value, contains) ==
    value # Undefined /\ Len(value) > 0 /\ indexOf(value, contains) # -1

\* encodedUrlContains without the check of req.url
encodedUrlContainsWithoutUrl(r, value) ==
    \/ valueContains(r.path, value)
    \/ valueContains(r.baseUrl, value)
    \/ valueContains(r.originalUrl, value)
    \/ valueContains(r.route, value)

\* encodedUrlContains(req, value): path, url, baseUrl, originalUrl, route
encodedUrlContains(r, value) ==
    \/ valueContains(r.path, value)
    \/ valueContains(r.url, value)
    \/ valueContains(r.baseUrl, value)
    \/ valueContains(r.originalUrl, value)
    \/ valueContains(r.route, value)

\* decodedUrlContains reading req.url besides req.path
decodedUrlContainsPathOrUrl(r, value) ==
    valueContains(r.path, value) \/ valueContains(r.url, value)

\* decodedUrlContains(req, value): the path alone
decodedUrlContains(r, value) == valueContains(r.path, value)

\* containsOnlyPrintableAsciiCharacters with '\u007f' as its upper limit
containsOnlyPrintableAsciiCharactersThroughDel(uri) ==
    IF uri = Undefined THEN TRUE
    ELSE \A k \in 0..(Len(uri) - 1) :
            ~(CharCode[charAt(uri, k)] < 32 \/ CharCode[charAt(uri, k)] > 127)

\* containsOnlyPrintableAsciiCharacters without the upper limit
containsNoControlCharacters(uri) ==
    IF uri = Undefined THEN TRUE
    ELSE \A k \in 0..(Len(uri) - 1) : ~(CharCode[charAt(uri, k)] < 32)

\* containsOnlyPrintableAsciiCharacters(uri)
containsOnlyPrintableAsciiCharacters(uri) ==
    IF uri = Undefined THEN TRUE
    ELSE \A k \in 0..(Len(uri) - 1) :
            ~(CharCode[charAt(uri, k)] < 32 \/ CharCode[charAt(uri, k)] > 126)

\* isNormalizedFrom without the test for a ".." segment
RECURSIVE isNormalizedFromSingleDot(_, _)
isNormalizedFromSingleDot(path, i) ==
    IF ~(i > 0) THEN TRUE
    ELSE LET slashIndex == lastIndexOf(path, "/", i - 1)
             gap == i - slashIndex
         IN  IF gap = 2 /\ charAt(path, slashIndex + 1) = "."
             THEN FALSE
             ELSE isNormalizedFromSingleDot(path, slashIndex)

\* the loop of isNormalized with its cursor at i
RECURSIVE isNormalizedFrom(_, _)
isNormalizedFrom(path, i) ==
    IF ~(i > 0) THEN TRUE
    ELSE LET slashIndex == lastIndexOf(path, "/", i - 1)
             gap == i - slashIndex
         IN  IF gap = 2 /\ charAt(path, slashIndex + 1) = "."
             THEN FALSE
             ELSE IF gap = 3 /\ charAt(path, slashIndex + 1) = "."
                             /\ charAt(path, slashIndex + 2) = "."
             THEN FALSE
             ELSE isNormalizedFrom(path, slashIndex)

\* isNormalized(path)
isNormalized(path) ==
    IF path = Undefined THEN TRUE ELSE isNormalizedFrom(path, Len(path))

\* isNormalizedRequest without the check of req.route
isNormalizedRequestWithoutRoute(r) ==
    IF ~isNormalized(r.url) THEN FALSE
    ELSE IF ~isNormalized(r.originalUrl) THEN FALSE
    ELSE isNormalized(r.path)

\* isNormalizedRequest(req): url, originalUrl, path, route
isNormalizedRequest(r) ==
    IF ~isNormalized(r.url) THEN FALSE
    ELSE IF ~isNormalized(r.originalUrl) THEN FALSE
    ELSE IF ~isNormalized(r.path) THEN FALSE
    ELSE isNormalized(r.route)

\* ForbiddenHttpMethod without the toUpperCase of the request's method
ForbiddenHttpMethodCaseSensitive(f, r) ==
    IF f.allowedHttpMethods.allowAny THEN FALSE
    ELSE arrayIndexOf(f.allowedHttpMethods.items, r.method) = -1

\* rejectForbiddenHttpMethod throws
ForbiddenHttpMethod(f, r) ==
    IF f.allowedHttpMethods.allowAny THEN FALSE
    ELSE arrayIndexOf(f.allowedHttpMethods.items, toUpperCase(r.method)) = -1

\* rejectedBlocklistedUrls throws: an entry of the encoded list occurs in one
\* of the five fields, or an entry of the decoded list occurs in the path
BlocklistedUrl(f, r) ==
    \/ \E k \in 1..Len(f.blocklists.encoded) :
            encodedUrlContains(r, f.blocklists.encoded[k])
    \/ \E k \in 1..Len(f.blocklists.decoded) :
            decodedUrlContains(r, f.blocklists.decoded[k])

\* UntrustedHost without the test that the request has a hostname
UntrustedHostTestsAbsent(f, r) ==
    LET t == PredicateTest(f.allowedHostnames, r.hostname)
    IN  IF t = "throw" THEN "fault"
        ELSE IF t = "false" THEN "reject" ELSE "pass"

\* what rejectedUntrustedHosts does: "pass", "reject" (it throws its
\* RequestRejectedError) or "fault" (the predicate threw)
UntrustedHost(f, r) ==
    IF r.hostname = Undefined THEN "pass"
    ELSE LET t == PredicateTest(f.allowedHostnames, r.hostname)
         IN  IF t = "throw" THEN "fault"
             ELSE IF t = "false" THEN "reject" ELSE "pass"

---------------------------------------------------------------------------
(* Requests and options the specifications draw from.                      *)

\* a Request: the fields of express's Request the firewall reads
Request(method, hostname, url, path, originalUrl, baseUrl, route) ==
    [method |-> method, hostname |-> hostname, url |-> url, path |-> path,
     originalUrl |-> originalUrl, baseUrl |-> baseUrl, route |-> route,
     headers |-> <<>>, query |-> <<>>]

\* request r with the headers hs and the query parameters qs, each a
\* sequence of <<name, value>>
WithHeadersAndQuery(r, hs, qs) == [r EXCEPT !.headers = hs, !.query = qs]

NoRequest ==
    Request(Undefined, Undefined, Undefined, Undefined, Undefined,
            Undefined, Undefined)

\* the strings of at most n characters over the one character "x"
RECURSIVE Pads(_)
Pads(n) == IF n = 0 THEN {<<>>}
           ELSE Pads(n - 1) \cup {<<"x">> \o p : p \in Pads(n - 1)}

\* "/" + pad + fragment
UrlsOf(fragments) ==
    {<<"/">> \o pad \o frag : pad \in Pads(MaxPad), frag \in fragments}

Fields == {"url", "path", "originalUrl", "baseUrl", "route"}

\* a GET-like request whose fields in `carriers` hold s; the other fields
\* are those of a request for "/x" seen by a middleware mounted at the root
RequestCarrying(method, hostname, carriers, s) ==
    Request(method, hostname,
            IF "url" \in carriers THEN s ELSE <<"/", "x">>,
            IF "path" \in carriers THEN s ELSE <<"/", "x">>,
            IF "originalUrl" \in carriers THEN s ELSE <<"/", "x">>,
            IF "baseUrl" \in carriers THEN s ELSE <<>>,
            IF "route" \in carriers THEN s ELSE Undefined)

\* the fields a fragment is put in: each one alone, or the three express
\* derives from the request line together
Placements == {{f} : f \in Fields} \cup {{"url", "path", "originalUrl"}}

MethodSamples ==
    {GET, <<"g", "e", "t">>, <<"P", "o", "s", "t">>, HEAD, TRACE,
     <<"t", "r", "a", "c", "e">>}

HostnameSamples == {Undefined, LOCALHOST, EVIL_TEST}

\* fragments that pass every check or fail one or several of them
PipelineFragments ==
    {<<>>, <<";">>, <<".", ".">>, <<"U3042">>, <<";", "/", ".">>,
     <<".", "/", "U0019">>, <<"%", "2", "e", "U3042">>}

\* every method and hostname with the fragment in the three fields express
\* derives from the request line, and a GET from localhost with the fragment
\* in each field alone
PipelineRequests ==
    {RequestCarrying(m, h, {"url", "path", "originalUrl"}, s) :
        m \in MethodSamples, h \in HostnameSamples,
        s \in UrlsOf(PipelineFragments)}
    \cup
    {RequestCarrying(GET, LOCALHOST, c, s) :
        c \in Placements, s \in UrlsOf(PipelineFragments)}

PipelineOptions ==
    {NoOptions} \cup
    {[EmptyOptions EXCEPT !.logToConsole = l,
                          !.unsafeAllowAnyHttpMethod = u,
                          !.allowedHttpMethods = ms,
                          !.allowedHostnames = hp,
                          !.allow = a] :
        l \in BOOLEAN, u \in BOOLEAN,
        ms \in {UndefinedList, <<>>, <<POST, GET>>},
        hp \in {UndefinedPredicate, PredicateOf("isLocalhost")},
        a \in {{}, {"allowSemicolon"}}}

---------------------------------------------------------------------------
(* The promise chain of firewall(req, res, next), one action per link.     *)

Evaluations == DOMAIN pc

NoError == [reason |-> "none", value |-> Undefined]
RequestRejectedError(reason, value) == [reason |-> reason, value |-> value]

\* a Response nothing was written to; writes counts the calls of writeHead
NoResponse ==
    [statusCode |-> 0, headers |-> {}, body |-> "", ended |-> FALSE,
     writes |-> 0]

Throw(i, e) ==
    /\ error' = [error EXCEPT ![i] = e]
    /\ pc' = [pc EXCEPT ![i] = "catch"]

Continue(i, link) ==
    /\ pc' = [pc EXCEPT ![i] = link]
    /\ UNCHANGED error

\* Firewall with the blocklist link left out of the chain
FirewallWithoutBlocklistLink(i, r) ==
    /\ pc[i] = "idle"
    /\ req' = [req EXCEPT ![i] = r]
    /\ gates' = [gates EXCEPT ![i] = Append(@, "method")]
    /\ IF ForbiddenHttpMethod(fw, r)
       THEN Throw(i, RequestRejectedError("method-not-allowed",
                                          toUpperCase(r.method)))
       ELSE Continue(i, "hosts")
    /\ UNCHANGED <<predicates, options, fw, fieldTests, res, nextCalls, log, hostTests>>

\* Firewall with the header names of the request put to allowedHeaderNames
\* after the method check
FirewallTestingHeaderNames(i, r) ==
    /\ pc[i] = "idle"
    /\ req' = [req EXCEPT ![i] = r]
    /\ gates' = [gates EXCEPT ![i] = Append(@, "method")]
    /\ fieldTests' = [fieldTests EXCEPT ![i] = @ + Len(r.headers)]
    /\ IF ForbiddenHttpMethod(fw, r)
       THEN Throw(i, RequestRejectedError("method-not-allowed",
                                          toUpperCase(r.method)))
       ELSE IF \E k \in 1..Len(r.headers) :
                  fw.allowedHeaderNames.condition = "notEvil"
                      /\ PredicateTest(fw.allowedHeaderNames, r.headers[k][1])
                            = "false"
       THEN Throw(i, RequestRejectedError("header-not-allowed", Undefined))
       ELSE Continue(i, "blocklist")
    /\ UNCHANGED <<predicates, options, fw, res, nextCalls, log, hostTests>>

\* firewall(req, res, next) is called: rejectForbiddenHttpMethod runs to its
\* end within the call, the other links run as later microtasks
Firewall(i, r) ==
    /\ pc[i] = "idle"
    /\ req' = [req EXCEPT ![i] = r]
    /\ gates' = [gates EXCEPT ![i] = Append(@, "method")]
    /\ IF ForbiddenHttpMethod(fw, r)
       THEN Throw(i, RequestRejectedError("method-not-allowed",
                                          toUpperCase(r.method)))
       ELSE Continue(i, "blocklist")
    /\ UNCHANGED <<predicates, options, fw, fieldTests, res, nextCalls, log, hostTests>>

\* RejectedBlocklistedUrls that keeps its error for later and lets the chain
\* go on to the next link
RejectedBlocklistedUrlsGoingOn(i) ==
    /\ pc[i] = "blocklist"
    /\ gates' = [gates EXCEPT ![i] = Append(@, "blocklist")]
    /\ error' = IF BlocklistedUrl(fw, req[i])
                THEN [error EXCEPT ![i] =
                        RequestRejectedError("blocklisted-content", req[i].url)]
                ELSE error
    /\ pc' = [pc EXCEPT ![i] = "hosts"]
    /\ UNCHANGED <<predicates, options, fw, fieldTests,
                   req, res, nextCalls, log, hostTests>>

\* RejectedBlocklistedUrls with the lists read by shift(): every pass over
\* a list takes its first entry away
RejectedBlocklistedUrlsShifting(i) ==
    /\ pc[i] = "blocklist"
    /\ gates' = [gates EXCEPT ![i] = Append(@, "blocklist")]
    /\ IF BlocklistedUrl(fw, req[i])
       THEN Throw(i, RequestRejectedError("blocklisted-content", req[i].url))
       ELSE Continue(i, "hosts")
    /\ fw' = [fw EXCEPT !.blocklists.encoded = Tail(@),
                        !.blocklists.decoded = Tail(@)]
    /\ UNCHANGED <<predicates, options, fieldTests, req, res, nextCalls, log, hostTests>>

\* .then(() => this.rejectedBlocklistedUrls(req))
RejectedBlocklistedUrls(i) ==
    /\ pc[i] = "blocklist"
    /\ gates' = [gates EXCEPT ![i] = Append(@, "blocklist")]
    /\ IF BlocklistedUrl(fw, req[i])
       THEN Throw(i, RequestRejectedError("blocklisted-content", req[i].url))
       ELSE Continue(i, "hosts")
    /\ UNCHANGED <<predicates, options, fw, fieldTests,
                   req, res, nextCalls, log, hostTests>>

\* .then(() => this.rejectedUntrustedHosts(req))
RejectedUntrustedHosts(i) ==
    /\ pc[i] = "hosts"
    /\ gates' = [gates EXCEPT ![i] = Append(@, "hostname")]
    /\ LET outcome == UntrustedHost(fw, req[i])
       IN  CASE outcome = "pass" -> Continue(i, "normalized")
             [] outcome = "reject" ->
                    Throw(i, RequestRejectedError("untrusted-host",
                                                  req[i].hostname))
             [] outcome = "fault" ->
                    Throw(i, Thrown(fw.allowedHostnames.condition,
                                    req[i].hostname))
    /\ hostTests' = [hostTests EXCEPT
                        ![i] = IF req[i].hostname = Undefined THEN @ ELSE @ + 1]
    /\ UNCHANGED <<predicates, options, fw, fieldTests, req, res, nextCalls, log>>

\* .then(() => this.rejectNonNormalizedRequests(req))
RejectNonNormalizedRequests(i) ==
    /\ pc[i] = "normalized"
    /\ gates' = [gates EXCEPT ![i] = Append(@, "normalization")]
    /\ IF ~isNormalizedRequest(req[i])
       THEN Throw(i, RequestRejectedError("non-normalized-path", Undefined))
       ELSE Continue(i, "printable")
    /\ UNCHANGED <<predicates, options, fw, fieldTests,
                   req, res, nextCalls, log, hostTests>>

\* .then(() => this.rejectNonPrintableAsciiCharactersInFieldName(req, req.url,
\*                                                              'requestURI'))
RejectNonPrintableAsciiCharactersInFieldName(i) ==
    /\ pc[i] = "printable"
    /\ gates' = [gates EXCEPT ![i] = Append(@, "printable")]
    /\ IF ~containsOnlyPrintableAsciiCharacters(req[i].url)
       THEN Throw(i, RequestRejectedError("non-printable-characters",
                                          Undefined))
       ELSE Continue(i, "next")
    /\ UNCHANGED <<predicates, options, fw, fieldTests,
                   req, res, nextCalls, log, hostTests>>

\* .then(() => next()): the downstream handler returns, or it throws and the
\* chain rejects with what it threw
CallNext(i) ==
    /\ pc[i] = "next"
    /\ nextCalls' = [nextCalls EXCEPT ![i] = @ + 1]
    /\ \/ /\ pc' = [pc EXCEPT ![i] = "done"]
          /\ UNCHANGED error
       \/ Throw(i, [reason |-> "downstream-error", value |-> Undefined])
    /\ UNCHANGED <<predicates, options, fw, fieldTests, req, res, log, hostTests, gates>>

\* reject(req, res): writeHead(403, ...) and end('FORBIDDEN')
reject(r) ==
    [r EXCEPT !.statusCode = 403,
              !.headers = {<<"Content-Type", "text/plain">>},
              !.body = "FORBIDDEN",
              !.ended = TRUE,
              !.writes = @ + 1]

\* Catch with the .catch link put before the .then(() => next()) link: the
\* chain goes on to next() after the rejection was handled
CatchThenNext(i) ==
    /\ pc[i] = "catch"
    /\ log' = IF fw.logToConsole THEN Append(log, error[i]) ELSE log
    /\ res' = [res EXCEPT ![i] = reject(@)]
    /\ pc' = [pc EXCEPT ![i] = "next"]
    /\ UNCHANGED <<predicates, options, fw, fieldTests,
                   req, nextCalls, error, hostTests, gates>>

\* Catch with the message of the error sent as the body of the response
CatchEchoingMessage(i) ==
    /\ pc[i] = "catch"
    /\ log' = IF fw.logToConsole THEN Append(log, error[i]) ELSE log
    /\ res' = [res EXCEPT ![i] = [reject(@) EXCEPT !.body = error[i].reason]]
    /\ pc' = [pc EXCEPT ![i] = "done"]
    /\ UNCHANGED <<predicates, options, fw, fieldTests,
                   req, nextCalls, error, hostTests, gates>>

\* Catch with the Response kept in a field of the instance that the first
\* call of firewall() sets: every rejection is written to that Response
CatchOnSharedResponse(i) ==
    /\ pc[i] = "catch"
    /\ log' = IF fw.logToConsole THEN Append(log, error[i]) ELSE log
    /\ res' = [res EXCEPT ![1] = reject(@)]
    /\ pc' = [pc EXCEPT ![i] = "done"]
    /\ UNCHANGED <<predicates, options, fw, fieldTests,
                   req, nextCalls, error, hostTests, gates>>

\* .catch((error) => ...): with logToConsole it reads error.message, which
\* throws when error is null; the promise of firewall() then rejects with
\* the TypeError and reject() is not reached
Catch(i) ==
    /\ pc[i] = "catch"
    /\ IF fw.logToConsole /\ error[i] = Null
       THEN /\ error' = [error EXCEPT ![i] = TypeError]
            /\ pc' = [pc EXCEPT ![i] = "escaped"]
            /\ UNCHANGED <<log, res>>
       ELSE /\ log' = IF fw.logToConsole THEN Append(log, error[i]) ELSE log
            /\ res' = [res EXCEPT ![i] = reject(@)]
            /\ pc' = [pc EXCEPT ![i] = "done"]
            /\ UNCHANGED error
    /\ UNCHANGED <<predicates, options, fw, fieldTests,
                   req, nextCalls, hostTests, gates>>

\* the state after `new StrictHttpFirewall(o)`, with n evaluations to come
Constructed(o, n) ==
    /\ options = o
    /\ fw = Constructor(o)
    /\ req = [i \in 1..n |-> NoRequest]
    /\ pc = [i \in 1..n |-> "idle"]
    /\ res = [i \in 1..n |-> NoResponse]
    /\ nextCalls = [i \in 1..n |-> 0]
    /\ error = [i \in 1..n |-> NoError]
    /\ log = <<>>
    /\ hostTests = [i \in 1..n |-> 0]
    /\ fieldTests = [i \in 1..n |-> 0]
    /\ gates = [i \in 1..n |-> <<>>]
    /\ predicates = <<>>

---------------------------------------------------------------------------
(* Spec: one request through the whole chain, over options that vary the   *)
(* method set, the hostname predicate and logging.                         *)

Init == \E o \in PipelineOptions : Constructed(o, 1)

Next ==
    \/ \E i \in Evaluations : \E r \in PipelineRequests : Firewall(i, r)
    \/ \E i \in Evaluations : RejectedBlocklistedUrls(i)
    \/ \E i \in Evaluations : RejectedUntrustedHosts(i)
    \/ \E i \in Evaluations : RejectNonNormalizedRequests(i)
    \/ \E i \in Evaluations : RejectNonPrintableAsciiCharactersInFieldName(i)
    \/ \E i \in Evaluations : CallNext(i)
    \/ \E i \in Evaluations : Catch(i)

Spec == Init /\ [][Next]_vars

\* a link of a chain that was started: a settled promise has its reaction
\* put on the microtask queue, and the queue is run to its end
Links ==
    \E i \in Evaluations :
        \/ RejectedBlocklistedUrls(i)
        \/ RejectedUntrustedHosts(i)
        \/ RejectNonNormalizedRequests(i)
        \/ RejectNonPrintableAsciiCharactersInFieldName(i)
        \/ CallNext(i)
        \/ Catch(i)

\* Spec, with every started chain run on
SpecFair == Spec /\ WF_vars(Links)

---------------------------------------------------------------------------
(* SpecBlocklist: the same chain, over options that vary the allowX        *)
(* toggles and the caller's extra lists, and GET requests that carry every *)
(* literal of the baseline lists in each field.                            *)

EXE == <<".", "e", "x", "e">>

BlocklistFragments ==
    Range(BaselineBlocklists.encoded) \cup Range(BaselineBlocklists.decoded)
        \cup {<<>>, EXE}

BlocklistRequests ==
    {RequestCarrying(GET, LOCALHOST, c, s) :
        c \in Placements, s \in UrlsOf(BlocklistFragments)}

\* the sets of toggles that are true: at most MaxToggles of them, or all
ToggleSets ==
    {a \in SUBSET Toggles : Cardinality(a) <= MaxToggles} \cup {Toggles}

BlocklistOptions ==
    {[EmptyOptions EXCEPT !.allow = a,
                          !.decodedUrlBlockList = d,
                          !.encodedUrlBlockList = e] :
        a \in ToggleSets,
        d \in {UndefinedList, <<EXE, <<";">>>>},
        e \in {UndefinedList, <<EXE, <<"%", "2", "e">>>>}}

\* constructed without options, or with one of BlocklistOptions
InitBlocklist ==
    \/ Constructed(NoOptions, 1)
    \/ \E o \in BlocklistOptions : Constructed(o, 1)

NextBlocklist ==
    \/ \E i \in Evaluations : \E r \in BlocklistRequests : Firewall(i, r)
    \/ \E i \in Evaluations : RejectedBlocklistedUrls(i)
    \/ \E i \in Evaluations : RejectedUntrustedHosts(i)
    \/ \E i \in Evaluations : RejectNonNormalizedRequests(i)
    \/ \E i \in Evaluations : RejectNonPrintableAsciiCharactersInFieldName(i)
    \/ \E i \in Evaluations : CallNext(i)
    \/ \E i \in Evaluations : Catch(i)

SpecBlocklist == InitBlocklist /\ [][NextBlocklist]_vars

---------------------------------------------------------------------------
(* SpecNormalized: one request whose fields hold every string of at most   *)
(* MaxPathLen characters over "/", "." and "x", or are undefined.  With    *)
(* allowUrlEncodedDoubleSlash the blocklist check lets all of them through *)
(* to the normalization check.                                             *)

\* the strings of at most n characters over the alphabet
RECURSIVE StringsOver(_, _)
StringsOver(alphabet, n) ==
    IF n = 0 THEN {<<>>}
    ELSE StringsOver(alphabet, n - 1)
            \cup {<<c>> \o s : c \in alphabet, s \in StringsOver(alphabet, n - 1)}

PathAlphabet == {"/", ".", "x"}

NormalizedPaths == StringsOver(PathAlphabet, MaxPathLen) \cup {Undefined}

\* the fields read by isNormalizedRequest, each alone, the three express
\* derives from the request line, and all four
NormalizedPlacements ==
    {{"url"}, {"originalUrl"}, {"path"}, {"route"},
     {"url", "path", "originalUrl"}, {"url", "path", "originalUrl", "route"}}

NormalizedRequests ==
    {RequestCarrying(GET, LOCALHOST, c, s) :
        c \in NormalizedPlacements, s \in NormalizedPaths}

NormalizedOptions ==
    {NoOptions,
     [EmptyOptions EXCEPT !.allow = {"allowUrlEncodedDoubleSlash"}],
     [EmptyOptions EXCEPT !.allow = Toggles],
     [EmptyOptions EXCEPT !.allow = Toggles,
                          !.logToConsole = TRUE,
                          !.unsafeAllowAnyHttpMethod = TRUE,
                          !.allowedHostnames = PredicateOf("isLocalhost")]}

InitNormalized == \E o \in NormalizedOptions : Constructed(o, 1)

NextNormalized ==
    \/ \E i \in Evaluations : \E r \in NormalizedRequests : Firewall(i, r)
    \/ \E i \in Evaluations : RejectedBlocklistedUrls(i)
    \/ \E i \in Evaluations : RejectedUntrustedHosts(i)
    \/ \E i \in Evaluations : RejectNonNormalizedRequests(i)
    \/ \E i \in Evaluations : RejectNonPrintableAsciiCharactersInFieldName(i)
    \/ \E i \in Evaluations : CallNext(i)
    \/ \E i \in Evaluations : Catch(i)

SpecNormalized == InitNormalized /\ [][NextNormalized]_vars

---------------------------------------------------------------------------
(* SpecPrintable: one request whose url holds every string of at most      *)
(* MaxUrlLen characters around the two limits of the printable range, or   *)
(* is undefined.                                                           *)

\* U+001F, U+0020, U+007E and U+007F lie at the two limits; NUL is in the
\* blocklists, LS in the encoded one, U+3042 in neither
PrintableAlphabet == {"x", "U001F", " ", "~", "DEL", "NUL", "LS", "U3042"}

PrintableUrls == StringsOver(PrintableAlphabet, MaxUrlLen) \cup {Undefined}

PrintableRequests ==
    {RequestCarrying(GET, LOCALHOST, c, s) :
        c \in {{"url"}, {"url", "path", "originalUrl"}}, s \in PrintableUrls}

PrintableOptions ==
    {NoOptions,
     [EmptyOptions EXCEPT !.allow = {"allowNull"}],
     [EmptyOptions EXCEPT !.allow = Toggles],
     [EmptyOptions EXCEPT !.allow = Toggles,
                          !.logToConsole = TRUE,
                          !.unsafeAllowAnyHttpMethod = TRUE,
                          !.allowedHostnames = PredicateOf("isLocalhost")]}

InitPrintable == \E o \in PrintableOptions : Constructed(o, 1)

NextPrintable ==
    \/ \E i \in Evaluations : \E r \in PrintableRequests : Firewall(i, r)
    \/ \E i \in Evaluations : RejectedBlocklistedUrls(i)
    \/ \E i \in Evaluations : RejectedUntrustedHosts(i)
    \/ \E i \in Evaluations : RejectNonNormalizedRequests(i)
    \/ \E i \in Evaluations : RejectNonPrintableAsciiCharactersInFieldName(i)
    \/ \E i \in Evaluations : CallNext(i)
    \/ \E i \in Evaluations : Catch(i)

SpecPrintable == InitPrintable /\ [][NextPrintable]_vars

---------------------------------------------------------------------------
(* SpecHosts: one request, with and without a hostname, through instances  *)
(* whose hostname predicate is the default one, one that returns, or one   *)
(* that throws.                                                            *)

HostsFragments == {<<>>, <<";">>, <<".", ".">>}

HostsRequests ==
    {RequestCarrying(m, h, {"url", "path", "originalUrl"}, s) :
        m \in {GET, HEAD, TRACE},
        h \in {Undefined, LOCALHOST, WWW_EXAMPLE_COM, EVIL_TEST},
        s \in UrlsOf(HostsFragments)}

HostsOptions ==
    {[EmptyOptions EXCEPT !.logToConsole = l,
                          !.allowedHttpMethods = ms,
                          !.allowedHostnames = hp] :
        l \in BOOLEAN,
        ms \in {UndefinedList, <<POST, GET>>},
        hp \in {UndefinedPredicate, AnyHostname, PredicateOf("isLocalhost"),
                PredicateOf("isExampleCom"), PredicateOf("faulty"),
                PredicateOf("faultyNull")}}

InitHosts ==
    \/ Constructed(NoOptions, 1)
    \/ \E o \in HostsOptions : Constructed(o, 1)

NextHosts ==
    \/ \E i \in Evaluations : \E r \in HostsRequests : Firewall(i, r)
    \/ \E i \in Evaluations : RejectedBlocklistedUrls(i)
    \/ \E i \in Evaluations : RejectedUntrustedHosts(i)
    \/ \E i \in Evaluations : RejectNonNormalizedRequests(i)
    \/ \E i \in Evaluations : RejectNonPrintableAsciiCharactersInFieldName(i)
    \/ \E i \in Evaluations : CallNext(i)
    \/ \E i \in Evaluations : Catch(i)

SpecHosts == InitHosts /\ [][NextHosts]_vars

---------------------------------------------------------------------------
(* SpecHeaders: one request with headers and query parameters through      *)
(* instances given header and parameter predicates.                        *)

\* no pair, a pair the predicate "notEvil" accepts, one whose name it
\* refuses, one whose value it refuses
PairSamples ==
    {<<>>, << <<<<"x">>, <<"x">>>> >>, << <<EVIL, <<"x">>>> >>,
     << <<<<"x">>, EVIL>> >>}

HeadersRequests ==
    {WithHeadersAndQuery(
         RequestCarrying(GET, h, {"url", "path", "originalUrl"}, s), hs, qs) :
        h \in {LOCALHOST, EVIL_TEST}, s \in UrlsOf({<<>>, <<";">>}),
        hs \in PairSamples, qs \in PairSamples}

HeadersOptions ==
    {[EmptyOptions EXCEPT !.allowedHostnames = PredicateOf("isLocalhost"),
                          !.allowedHeaderNames = hn,
                          !.allowedHeaderValues = hv,
                          !.allowedParameterNames = pn,
                          !.allowedParameterValues = pv] :
        hn \in {UndefinedPredicate, PredicateOf("notEvil")},
        hv \in {UndefinedPredicate, PredicateOf("notEvil")},
        pn \in {UndefinedPredicate, PredicateOf("notEvil")},
        pv \in {UndefinedPredicate, PredicateOf("notEvil")}}

InitHeaders ==
    \/ Constructed(NoOptions, 1)
    \/ \E o \in HeadersOptions : Constructed(o, 1)

NextHeaders ==
    \/ \E i \in Evaluations : \E r \in HeadersRequests : Firewall(i, r)
    \/ \E i \in Evaluations : RejectedBlocklistedUrls(i)
    \/ \E i \in Evaluations : RejectedUntrustedHosts(i)
    \/ \E i \in Evaluations : RejectNonNormalizedRequests(i)
    \/ \E i \in Evaluations : RejectNonPrintableAsciiCharactersInFieldName(i)
    \/ \E i \in Evaluations : CallNext(i)
    \/ \E i \in Evaluations : Catch(i)

SpecHeaders == InitHeaders /\ [][NextHeaders]_vars

---------------------------------------------------------------------------
(* SpecMiddleware: the middleware returned by httpFirewall(options).  It   *)
(* constructs a StrictHttpFirewall for every request it is called with;    *)
(* the instance is local to the call.  The requests are taken one after    *)
(* the other, so that fw is the instance of the request in flight.         *)

\* no instance was constructed yet
NoInstance ==
    [logToConsole |-> FALSE,
     blocklists |-> [encoded |-> <<>>, decoded |-> <<>>],
     allowedHttpMethods |-> [allowAny |-> FALSE, items |-> <<>>],
     allowedHostnames |-> UndefinedPredicate,
     allowedHeaderNames |-> UndefinedPredicate,
     allowedHeaderValues |-> UndefinedPredicate,
     allowedParameterNames |-> UndefinedPredicate,
     allowedParameterValues |-> UndefinedPredicate]

\* the state after `httpFirewall(o)`, with n requests to come
Mounted(o, n) ==
    /\ options = o
    /\ fw = NoInstance
    /\ req = [i \in 1..n |-> NoRequest]
    /\ pc = [i \in 1..n |-> "idle"]
    /\ res = [i \in 1..n |-> NoResponse]
    /\ nextCalls = [i \in 1..n |-> 0]
    /\ error = [i \in 1..n |-> NoError]
    /\ log = <<>>
    /\ hostTests = [i \in 1..n |-> 0]
    /\ fieldTests = [i \in 1..n |-> 0]
    /\ gates = [i \in 1..n |-> <<>>]
    /\ predicates = <<>>

\* httpFirewall with `new StrictHttpFirewall()`: the options are not passed
\* to the constructor
httpFirewallWithoutOptions(i, r) ==
    /\ pc[i] = "idle"
    /\ \A j \in Evaluations : j < i => pc[j] = "done"
    /\ fw' = Constructor(NoOptions)
    /\ req' = [req EXCEPT ![i] = r]
    /\ gates' = [gates EXCEPT ![i] = Append(@, "method")]
    /\ IF ForbiddenHttpMethod(fw', r)
       THEN Throw(i, RequestRejectedError("method-not-allowed",
                                          toUpperCase(r.method)))
       ELSE Continue(i, "blocklist")
    /\ UNCHANGED <<predicates, options, fieldTests, res, nextCalls, log, hostTests>>

\* the middleware is called with request r: it constructs an instance from
\* the options and calls its firewall(req, res, next)
httpFirewall(i, r) ==
    /\ pc[i] = "idle"
    /\ \A j \in Evaluations : j < i => pc[j] = "done"
    /\ fw' = Constructor(options)
    /\ req' = [req EXCEPT ![i] = r]
    /\ gates' = [gates EXCEPT ![i] = Append(@, "method")]
    /\ IF ForbiddenHttpMethod(fw', r)
       THEN Throw(i, RequestRejectedError("method-not-allowed",
                                          toUpperCase(r.method)))
       ELSE Continue(i, "blocklist")
    /\ UNCHANGED <<predicates, options, fieldTests, res, nextCalls, log, hostTests>>

\* requests that pass, and requests that fail each of the first four checks
SequenceRequests ==
    {RequestCarrying(m, LOCALHOST, {"url", "path", "originalUrl"}, s) :
        m \in {GET, TRACE},
        s \in {<<"/", "x">>, <<"/", ";">>, <<"/", ".", ".">>}}
    \cup {RequestCarrying(GET, EVIL_TEST, {"url", "path", "originalUrl"},
                          <<"/", "x">>)}

SequenceOptions ==
    {NoOptions,
     [EmptyOptions EXCEPT !.allow = {"allowSemicolon"}],
     [EmptyOptions EXCEPT !.allowedHostnames = PredicateOf("isLocalhost"),
                          !.logToConsole = TRUE],
     [EmptyOptions EXCEPT !.allowedHttpMethods = <<>>,
                          !.encodedUrlBlockList = <<<<"x">>>>],
     [EmptyOptions EXCEPT !.unsafeAllowAnyHttpMethod = TRUE,
                          !.allowedHttpMethods = <<POST, TRACE>>,
                          !.allow = Toggles]}

InitMiddleware == \E o \in SequenceOptions : Mounted(o, MaxEvaluations)

NextMiddleware ==
    \/ \E i \in Evaluations : \E r \in SequenceRequests : httpFirewall(i, r)
    \/ \E i \in Evaluations : RejectedBlocklistedUrls(i)
    \/ \E i \in Evaluations : RejectedUntrustedHosts(i)
    \/ \E i \in Evaluations : RejectNonNormalizedRequests(i)
    \/ \E i \in Evaluations : RejectNonPrintableAsciiCharactersInFieldName(i)
    \/ \E i \in Evaluations : CallNext(i)
    \/ \E i \in Evaluations : Catch(i)

SpecMiddleware == InitMiddleware /\ [][NextMiddleware]_vars

---------------------------------------------------------------------------
(* SpecConcurrent: MaxEvaluations requests given to one instance, the      *)
(* links of their promise chains interleaved in every order.               *)

InitConcurrent == \E o \in SequenceOptions : Constructed(o, MaxEvaluations)

NextConcurrent ==
    \/ \E i \in Evaluations : \E r \in SequenceRequests : Firewall(i, r)
    \/ \E i \in Evaluations : RejectedBlocklistedUrls(i)
    \/ \E i \in Evaluations : RejectedUntrustedHosts(i)
    \/ \E i \in Evaluations : RejectNonNormalizedRequests(i)
    \/ \E i \in Evaluations : RejectNonPrintableAsciiCharactersInFieldName(i)
    \/ \E i \in Evaluations : CallNext(i)
    \/ \E i \in Evaluations : Catch(i)

SpecConcurrent == InitConcurrent /\ [][NextConcurrent]_vars

---------------------------------------------------------------------------
(* SpecPredicate: predicates built from the caller's functions with of,    *)
(* and, or and not, in every order.                                        *)

\* no instance of the firewall takes part
InitPredicate == Constructed(NoOptions, 1)

NextPredicate ==
    \/ \E fn \in PredicateFns : Of(fn)
    \/ \E p \in DOMAIN predicates : \E input \in PredicateInputs : And(p, input)
    \/ \E p \in DOMAIN predicates : \E input \in PredicateInputs : Or(p, input)
    \/ \E p \in DOMAIN predicates : Not(p)

SpecPredicate == InitPredicate /\ [][NextPredicate]_vars

---------------------------------------------------------------------------
(* SpecJapanese: the options of the test 'Should allow Japanese chars',    *)
(* and requests whose fields hold the character U+3042, or the six ASCII   *)
(* characters that the test's string literal '/test/\\u3042' denotes.   *)

JapaneseToggles ==
    {"allowBackSlash", "allowUrlEncodedSlash", "allowUrlEncodedDoubleSlash"}

\* '\\u3042' of the test, the same with the backslash turned into a slash
\* (as a client may send it), and the character itself
BACKSLASH_U3042 == <<"\\", "u", "3", "0", "4", "2">>
SLASH_U3042 == <<"/", "u", "3", "0", "4", "2">>
JAPANESE_A == <<"U3042">>

JapaneseFragments ==
    {<<>>, BACKSLASH_U3042, SLASH_U3042, JAPANESE_A, <<"/">> \o JAPANESE_A,
     <<"\\">> \o JAPANESE_A}

JapaneseRequests ==
    {RequestCarrying(m, LOCALHOST, c, s) :
        m \in {GET, TRACE},
        c \in {{"url"}, {"url", "path", "originalUrl"}},
        s \in UrlsOf(JapaneseFragments)}

JapaneseOptions ==
    {NoOptions} \cup
    {[EmptyOptions EXCEPT !.allow = a, !.logToConsole = l,
                          !.allowedHttpMethods = ms] :
        a \in {JapaneseToggles, Toggles}, l \in BOOLEAN,
        ms \in {UndefinedList, <<POST, GET>>}}

InitJapanese == \E o \in JapaneseOptions : Constructed(o, 1)

NextJapanese ==
    \/ \E i \in Evaluations : \E r \in JapaneseRequests : Firewall(i, r)
    \/ \E i \in Evaluations : RejectedBlocklistedUrls(i)
    \/ \E i \in Evaluations : RejectedUntrustedHosts(i)
    \/ \E i \in Evaluations : RejectNonNormalizedRequests(i)
    \/ \E i \in Evaluations : RejectNonPrintableAsciiCharactersInFieldName(i)
    \/ \E i \in Evaluations : CallNext(i)
    \/ \E i \in Evaluations : Catch(i)

SpecJapanese == InitJapanese /\ [][NextJapanese]_vars

---------------------------------------------------------------------------
(* SpecToggles: instances constructed with every combination of the eleven *)
(* allowX options and no extra lists, each taking one request.             *)

TogglesOptions ==
    {[EmptyOptions EXCEPT !.allow = a] : a \in SUBSET Toggles}

\* SequenceRequests, and GET requests with a "%" in the path, or in the
\* query part of the url alone: /%2e, /x%, /x?% and /x?%2e
TogglesRequests ==
    SequenceRequests
    \cup {RequestCarrying(GET, LOCALHOST, {"url", "path", "originalUrl"}, s) :
            s \in {<<"/", "%", "2", "e">>, <<"/", "x", "%">>}}
    \cup {Request(GET, LOCALHOST, <<"/", "x", "?">> \o q, <<"/", "x">>,
                  <<"/", "x", "?">> \o q, <<>>, Undefined) :
            q \in {<<"%">>, <<"%", "2", "e">>}}

InitToggles ==
    \/ Constructed(NoOptions, 1)
    \/ \E o \in TogglesOptions : Constructed(o, 1)

NextToggles ==
    \/ \E i \in Evaluations : \E r \in TogglesRequests : Firewall(i, r)
    \/ \E i \in Evaluations : RejectedBlocklistedUrls(i)
    \/ \E i \in Evaluations : RejectedUntrustedHosts(i)
    \/ \E i \in Evaluations : RejectNonNormalizedRequests(i)
    \/ \E i \in Evaluations : RejectNonPrintableAsciiCharactersInFieldName(i)
    \/ \E i \in Evaluations : CallNext(i)
    \/ \E i \in Evaluations : Catch(i)

SpecToggles == InitToggles /\ [][NextToggles]_vars

---------------------------------------------------------------------------
(* SpecSync: the first class of strict.http.firewall.ts, whose firewall()  *)
(* is synchronous: the five checks and next() run within the one call, and *)
(* what a check throws leaves firewall() to its caller.                    *)

\* the else branches of the constructor of that class: a toggle that is not
\* true has its group pushed once more
SyncAddToggle(b, toggle) ==
    CASE toggle = "allowSemicolon" ->
            urlBlocklistsAddAll(b, FORBIDDEN_SEMICOLON)
      [] toggle = "allowUrlEncodedSlash" ->
            urlBlocklistsAddAll(b, FORBIDDEN_FORWARDSLASH)
      [] toggle = "allowUrlEncodedDoubleSlash" ->
            urlBlocklistsAddAll(b, FORBIDDEN_DOUBLE_FORWARDSLASH)
      [] toggle = "allowUrlEncodedPeriod" ->
            [b EXCEPT !.encoded = @ \o FORBIDDEN_ENCODED_PERIOD]
      [] toggle = "allowBackSlash" ->
            urlBlocklistsAddAll(b, FORBIDDEN_BACKSLASH)
      [] toggle = "allowNull" -> urlBlocklistsAddAll(b, FORBIDDEN_NULL)
      [] toggle = "allowUrlEncodedPercent" ->
            [encoded |-> b.encoded \o <<ENCODED_PERCENT>>,
             decoded |-> b.decoded \o <<PERCENT>>]
      [] toggle = "allowUrlEncodedCarriageReturn" ->
            urlBlocklistsAddAll(b, FORBIDDEN_CR)
      [] toggle = "allowUrlEncodedLineFeed" ->
            urlBlocklistsAddAll(b, FORBIDDEN_LF)
      [] toggle = "allowUrlEncodedParagraphSeparator" ->
            [b EXCEPT !.encoded = @ \o FORBIDDEN_PARAGRAPH_SEPARATOR]
      [] toggle = "allowUrlEncodedLineSeparator" ->
            [b EXCEPT !.encoded = @ \o FORBIDDEN_LINE_SEPARATOR]

\* the if-else statements of that constructor, in their order
RECURSIVE SyncApplyToggles(_, _, _)
SyncApplyToggles(b, o, order) ==
    IF order = <<>> THEN b
    ELSE LET after == IF Head(order) \in o.allow
                      THEN ApplyToggle(b, o, Head(order))
                      ELSE SyncAddToggle(b, Head(order))
         IN  IF Len(after.encoded) + Len(after.decoded) = 0 THEN after
             ELSE SyncApplyToggles(after, o, Tail(order))

\* new StrictHttpFirewall(options) of that class: it has no logToConsole and
\* takes no extra lists
SyncConstructor(o) ==
    [Constructor(o) EXCEPT
        !.logToConsole = FALSE,
        !.blocklists = IF ~o.defined THEN BaselineBlocklists
                       ELSE SyncApplyToggles(BaselineBlocklists, o,
                                             ToggleOrder)]

\* encodedUrlContains of that class: req.path and req.url
SyncEncodedUrlContains(r, value) ==
    IF valueContains(r.path, value) THEN TRUE
    ELSE valueContains(r.url, value)

\* rejectedBlocklistedUrls of that class rejects
SyncBlocklistedUrl(f, r) ==
    \/ \E k \in 1..Len(f.blocklists.encoded) :
            SyncEncodedUrlContains(r, f.blocklists.encoded[k])
    \/ \E k \in 1..Len(f.blocklists.decoded) :
            decodedUrlContains(r, f.blocklists.decoded[k])

\* reject(req, res) of that class: the body is JSON.stringify(FORBIDDEN)
SyncReject(r) ==
    [r EXCEPT !.statusCode = 403,
              !.headers = {<<"Content-Type", "text/plain">>},
              !.body = "\"FORBIDDEN\"",
              !.ended = TRUE,
              !.writes = @ + 1]

\* the check of the synchronous firewall() that throws for request r, the
\* checks it has run by then, and whether it called reject() before it threw
SyncOutcome(f, r) ==
    IF ForbiddenHttpMethod(f, r)
    THEN [ran |-> 1, rejected |-> TRUE,
          error |-> RequestRejectedError("method-not-allowed",
                                         toUpperCase(r.method))]
    ELSE IF SyncBlocklistedUrl(f, r)
    THEN [ran |-> 2, rejected |-> TRUE,
          error |-> RequestRejectedError("blocklisted-content", r.url)]
    ELSE IF UntrustedHost(f, r) = "reject"
    THEN [ran |-> 3, rejected |-> TRUE,
          error |-> RequestRejectedError("untrusted-host", r.hostname)]
    ELSE IF UntrustedHost(f, r) = "fault"
    THEN [ran |-> 3, rejected |-> FALSE,
          error |-> Thrown(f.allowedHostnames.condition, r.hostname)]
    ELSE IF ~isNormalizedRequest(r)
    THEN [ran |-> 4, rejected |-> FALSE,
          error |-> RequestRejectedError("non-normalized-path", Undefined)]
    ELSE IF ~containsOnlyPrintableAsciiCharacters(r.url)
    THEN [ran |-> 5, rejected |-> FALSE,
          error |-> RequestRejectedError("non-printable-characters",
                                         Undefined)]
    ELSE [ran |-> 5, rejected |-> FALSE, error |-> NoError]

\* firewall(req, res, next) of that class, from its call to its return or
\* to the exception that leaves it
FirewallSync(i, r) ==
    LET o == SyncOutcome(fw, r)
    IN  /\ pc[i] = "idle"
        /\ req' = [req EXCEPT ![i] = r]
        /\ gates' = [gates EXCEPT
                ![i] = SubSeq(<<"method", "blocklist", "hostname",
                                "normalization", "printable">>, 1, o.ran)]
        /\ hostTests' = [hostTests EXCEPT
                ![i] = IF o.ran >= 3 /\ r.hostname # Undefined
                       THEN @ + 1 ELSE @]
        /\ res' = [res EXCEPT
                ![i] = IF o.rejected THEN SyncReject(@) ELSE @]
        /\ IF o.error # NoError
           THEN /\ error' = [error EXCEPT ![i] = o.error]
                /\ pc' = [pc EXCEPT ![i] = "escaped"]
                /\ UNCHANGED nextCalls
           ELSE /\ nextCalls' = [nextCalls EXCEPT ![i] = @ + 1]
                /\ \/ /\ pc' = [pc EXCEPT ![i] = "done"]
                      /\ UNCHANGED error
                   \/ /\ pc' = [pc EXCEPT ![i] = "escaped"]
                      /\ error' = [error EXCEPT ![i] =
                            [reason |-> "downstream-error",
                             value |-> Undefined]]
        /\ UNCHANGED <<predicates, options, fw, fieldTests, log>>

\* the state after `new StrictHttpFirewall(o)` of that class
SyncConstructed(o, n) ==
    /\ options = o
    /\ fw = SyncConstructor(o)
    /\ req = [i \in 1..n |-> NoRequest]
    /\ pc = [i \in 1..n |-> "idle"]
    /\ res = [i \in 1..n |-> NoResponse]
    /\ nextCalls = [i \in 1..n |-> 0]
    /\ error = [i \in 1..n |-> NoError]
    /\ log = <<>>
    /\ hostTests = [i \in 1..n |-> 0]
    /\ fieldTests = [i \in 1..n |-> 0]
    /\ gates = [i \in 1..n |-> <<>>]
    /\ predicates = <<>>

InitSync == \E o \in PipelineOptions : SyncConstructed(o, 1)

NextSync == \E i \in Evaluations : \E r \in PipelineRequests : FirewallSync(i, r)

SpecSync == InitSync /\ [][NextSync]_vars

---------------------------------------------------------------------------
(* What the claims speak of.                                               *)

Forbidden403(r) ==
    /\ r.statusCode = 403
    /\ r.headers = {<<"Content-Type", "text/plain">>}
    /\ r.body = "FORBIDDEN"
    /\ r.ended

\* the reason of the first check, in the order method, blocklist, hostname,
\* normalization, printable ASCII, that request r fails on instance f
FirstFailure(f, r) ==
    IF ForbiddenHttpMethod(f, r) THEN "method-not-allowed"
    ELSE IF BlocklistedUrl(f, r) THEN "blocklisted-content"
    ELSE IF UntrustedHost(f, r) = "reject" THEN "untrusted-host"
    ELSE IF UntrustedHost(f, r) = "fault" THEN "predicate-fault"
    ELSE IF ~isNormalizedRequest(r) THEN "non-normalized-path"
    ELSE IF ~containsOnlyPrintableAsciiCharacters(r.url)
    THEN "non-printable-characters"
    ELSE "none"

\* how many of the five checks request r fails on instance f
FailureCount(f, r) ==
    Cardinality({g \in {"method", "blocklist", "hostname", "normalization",
                        "printable"} :
        \/ g = "method" /\ ForbiddenHttpMethod(f, r)
        \/ g = "blocklist" /\ BlocklistedUrl(f, r)
        \/ g = "hostname" /\ UntrustedHost(f, r) # "pass"
        \/ g = "normalization" /\ ~isNormalizedRequest(r)
        \/ g = "printable" /\ ~containsOnlyPrintableAsciiCharacters(r.url)})

GateOrder == <<"method", "blocklist", "hostname", "normalization", "printable">>

GateReasons(g) ==
    CASE g = "method" -> {"method-not-allowed"}
      [] g = "blocklist" -> {"blocklisted-content"}
      [] g = "hostname" -> {"untrusted-host", "predicate-fault"}
      [] g = "normalization" -> {"non-normalized-path"}
      [] g = "printable" -> {"non-printable-characters"}

Arrived(i) == pc[i] # "idle"

\* the method set of the claims: the configured list when there is one, the
\* seven default methods otherwise
ConfiguredMethods ==
    IF options.defined /\ options.allowedHttpMethods # UndefinedList
    THEN Range(options.allowedHttpMethods)
    ELSE {GET, HEAD, POST, PUT, PATCH, DELETE, OPTIONS}

---------------------------------------------------------------------------
(* Claims C1 - C6, checked under Spec.                                     *)

\* C1: a request that fails any of the five checks never has next invoked,
\* and when its evaluation has ended the response holds status 403, the
\* header Content-Type: text/plain and the body FORBIDDEN.
C1_FailedGateGives403 ==
    \A i \in Evaluations :
        (Arrived(i) /\ FailureCount(fw, req[i]) > 0) =>
            /\ nextCalls[i] = 0
            /\ pc[i] # "next"
            /\ pc[i] = "done" => Forbidden403(res[i])

C1_Witness ==
    \E i \in Evaluations :
        /\ pc[i] = "done"
        /\ FirstFailure(fw, req[i]) = "non-normalized-path"
        /\ Forbidden403(res[i])
        /\ nextCalls[i] = 0

\* C2 (as stated): a request that passes all five checks has next invoked
\* exactly once and nothing is written to its response.
C2_PassingRequestOnlyReachesNext ==
    \A i \in Evaluations :
        (pc[i] = "done" /\ FailureCount(fw, req[i]) = 0) =>
            /\ nextCalls[i] = 1
            /\ res[i] = NoResponse

\* C3: the checks run in the order method, blocklist, hostname,
\* normalization, printable ASCII and stop at the first that fails: the
\* checks that ran are a prefix of that order, a rejected request was
\* rejected with the reason of the earliest check it fails, by the last
\* check that ran, and one response and at most one log line were written.
C3_FirstFailingGateWins ==
    \A i \in Evaluations :
        /\ gates[i] = SubSeq(GateOrder, 1, Len(gates[i]))
        /\ (Arrived(i) /\ FailureCount(fw, req[i]) > 0
                       /\ pc[i] \in {"catch", "done"}) =>
              /\ error[i].reason = FirstFailure(fw, req[i])
              /\ error[i].reason \in GateReasons(gates[i][Len(gates[i])])
              /\ pc[i] = "done" => /\ res[i].writes = 1
                                   /\ Len(log) <= 1

C3_Witness ==
    \E i \in Evaluations :
        /\ pc[i] = "done"
        /\ FailureCount(fw, req[i]) >= 3
        /\ BlocklistedUrl(fw, req[i])
        /\ error[i].reason = "blocklisted-content"
        /\ gates[i] = <<"method", "blocklist">>

\* C4: unless the method set is the allow-any sentinel, a request is
\* rejected by the method check exactly when its method in upper case is
\* not in the configured list (the seven default methods when no list is
\* configured); "trace" and "TRACE" are rejected by default and "get" passes
\* wherever GET is allowed.
C4_MethodGate ==
    \A i \in Evaluations :
        (Arrived(i) /\ ~fw.allowedHttpMethods.allowAny) =>
            /\ (error[i].reason = "method-not-allowed")
                  <=> (toUpperCase(req[i].method) \notin ConfiguredMethods)
            /\ (req[i].method \in {TRACE, <<"t", "r", "a", "c", "e">>}
                /\ TRACE \notin ConfiguredMethods)
                  => error[i].reason = "method-not-allowed"
            /\ (req[i].method \in {<<"g", "e", "t">>, <<"P", "o", "s", "t">>}
                /\ {GET, POST} \subseteq ConfiguredMethods)
                  => error[i].reason # "method-not-allowed"

C4_Witness ==
    \E i \in Evaluations :
        /\ options.defined
        /\ options.allowedHttpMethods = <<POST, GET>>
        /\ req[i].method = <<"P", "o", "s", "t">>
        /\ Len(gates[i]) >= 2

\* C5 (as stated): with unsafeAllowAnyHttpMethod true no request is rejected
\* by the method check, whatever the other options are.
C5_UnsafeAllowAnyDisablesMethodGate ==
    \A i \in Evaluations :
        (options.defined /\ options.unsafeAllowAnyHttpMethod /\ Arrived(i))
            => error[i].reason # "method-not-allowed"

\* C6: options with an empty allowedHttpMethods list construct an instance
\* whose method set is the allow-any sentinel: no request is rejected by
\* the method check.
C6_EmptyMethodListAllowsAny ==
    (options.defined /\ options.allowedHttpMethods = <<>>) =>
        /\ fw.allowedHttpMethods.allowAny
        /\ \A i \in Evaluations :
              Arrived(i) => /\ error[i].reason # "method-not-allowed"
                            /\ ~ForbiddenHttpMethod(fw, req[i])

C6_Witness ==
    \E i \in Evaluations :
        /\ options.defined
        /\ options.allowedHttpMethods = <<>>
        /\ ~options.unsafeAllowAnyHttpMethod
        /\ req[i].method = TRACE
        /\ Len(gates[i]) >= 2

---------------------------------------------------------------------------
(* Claims C7 - C10, checked under SpecBlocklist.                           *)

\* string s is defined and L occurs in it
Occurs(s, L) ==
    /\ s # Undefined
    /\ \E k \in 1..(Len(s) - Len(L) + 1) : SubSeq(s, k, k + Len(L) - 1) = L

\* s with the occurrences of L taken out, from the left
RECURSIVE DeleteAll(_, _)
DeleteAll(s, L) ==
    IF s = Undefined \/ L = <<>> \/ indexOf(s, L) = -1 THEN s
    ELSE SubSeq(s, 1, indexOf(s, L))
            \o DeleteAll(SubSeq(s, indexOf(s, L) + Len(L) + 1, Len(s)), L)

RequestWithout(r, L) ==
    Request(r.method, r.hostname, DeleteAll(r.url, L), DeleteAll(r.path, L),
            DeleteAll(r.originalUrl, L), DeleteAll(r.baseUrl, L),
            DeleteAll(r.route, L))

\* the blocklist check ran for evaluation i
BlocklistRan(i) == Len(gates[i]) >= 2

\* evaluation i was stopped at the blocklist check or before it, and ends
\* with the 403 response
StoppedAtBlocklist(i) ==
    /\ nextCalls[i] = 0
    /\ Len(gates[i]) <= 2
    /\ pc[i] \in {"blocklist", "catch", "done"}
    /\ pc[i] = "done" => Forbidden403(res[i])

\* the literals of the default encoded blocklist, as C7 lists them
C7_Literals ==
    {<<";">>, <<"%", "3", "b">>, <<"%", "3", "B">>,
     <<"%", "2", "f">>, <<"%", "2", "F">>, <<"/", "/">>,
     <<"\\">>, <<"%", "5", "c">>, <<"%", "5", "C">>,
     <<"NUL">>, <<"%", "0", "0">>,
     <<"LF">>, <<"%", "0", "a">>, <<"%", "0", "A">>,
     <<"CR">>, <<"%", "0", "d">>, <<"%", "0", "D">>,
     <<"%", "2", "5">>, <<"%", "2", "e">>, <<"%", "2", "E">>,
     <<"LS">>, <<"PS">>}

\* C7: without options, or with options in which no allowX toggle is true,
\* a request whose req.url holds a literal of the default encoded blocklist
\* never passes the blocklist check and ends with 403.
C7_DefaultBlocklistRejectsUrl ==
    \A i \in Evaluations :
        (/\ Arrived(i)
         /\ options.allow = {}
         /\ \E L \in C7_Literals : Occurs(req[i].url, L))
            => StoppedAtBlocklist(i)

C7_Witness ==
    \E i \in Evaluations :
        /\ options.allow = {}
        /\ Occurs(req[i].url, <<"LS">>)
        /\ req[i].path = <<"/", "x">>
        /\ pc[i] = "done"
        /\ error[i].reason = "blocklisted-content"
        /\ Forbidden403(res[i])

\* the literals the claims call the group of a toggle
ToggleGroup(X) ==
    CASE X = "allowSemicolon" -> Range(FORBIDDEN_SEMICOLON)
      [] X = "allowUrlEncodedSlash" -> Range(FORBIDDEN_FORWARDSLASH)
      [] X = "allowUrlEncodedDoubleSlash" ->
            Range(FORBIDDEN_DOUBLE_FORWARDSLASH)
      [] X = "allowUrlEncodedPeriod" -> Range(FORBIDDEN_ENCODED_PERIOD)
      [] X = "allowBackSlash" -> Range(FORBIDDEN_BACKSLASH)
      [] X = "allowNull" -> Range(FORBIDDEN_NULL)
      [] X = "allowUrlEncodedPercent" -> {ENCODED_PERCENT, PERCENT}
      [] X = "allowUrlEncodedCarriageReturn" -> Range(FORBIDDEN_CR)
      [] X = "allowUrlEncodedLineFeed" -> Range(FORBIDDEN_LF)
      [] X = "allowUrlEncodedParagraphSeparator" ->
            Range(FORBIDDEN_PARAGRAPH_SEPARATOR)
      [] X = "allowUrlEncodedLineSeparator" ->
            Range(FORBIDDEN_LINE_SEPARATOR)

\* C8 (as stated): with one toggle allowX true and every other option at its
\* default, a request whose URL holds a literal L of X's group, and which
\* would pass the blocklist check with the occurrences of L deleted from its
\* fields, passes the blocklist check.
C8_ToggleAdmitsItsLiterals ==
    \A i \in Evaluations : \A X \in Toggles : \A L \in ToggleGroup(X) :
        (/\ options = [EmptyOptions EXCEPT !.allow = {X}]
         /\ BlocklistRan(i)
         /\ Occurs(req[i].url, L)
         /\ ~BlocklistedUrl(fw, RequestWithout(req[i], L)))
            => error[i].reason # "blocklisted-content"

\* C9: a request that passed the blocklist check of the instance passes the
\* blocklist check of every instance constructed from the same options with
\* one more allowX toggle true.  It is stated at the step that follows the
\* blocklist check: the request and the options stay as they are there.
C9_TogglesAreMonotone ==
    \A i \in Evaluations :
        (/\ options.defined
         /\ pc[i] = "hosts"
         /\ error[i].reason # "blocklisted-content")
            => \A X \in Toggles \ options.allow :
                  ~BlocklistedUrl(
                      Constructor([options EXCEPT !.allow = @ \cup {X}]),
                      req[i])

C9_Witness ==
    \E i \in Evaluations :
        /\ options.allow = {"allowUrlEncodedSlash"}
        /\ Occurs(req[i].url, <<"%", "2", "F">>)
        /\ BlocklistRan(i)
        /\ error[i].reason # "blocklisted-content"
        /\ pc[i] = "hosts"

\* an entry of options.decodedUrlBlockList occurs in the path, or an entry
\* of options.encodedUrlBlockList occurs in one of the five fields
ExtraEntryOccurs(o, r) ==
    \/ /\ o.decodedUrlBlockList # UndefinedList
       /\ \E k \in 1..Len(o.decodedUrlBlockList) :
              Occurs(r.path, o.decodedUrlBlockList[k])
    \/ /\ o.encodedUrlBlockList # UndefinedList
       /\ \E k \in 1..Len(o.encodedUrlBlockList) :
              \E s \in {r.url, r.path, r.originalUrl, r.baseUrl, r.route} :
                  Occurs(s, o.encodedUrlBlockList[k])

WithoutBlockLists(o) ==
    [o EXCEPT !.decodedUrlBlockList = UndefinedList,
              !.encodedUrlBlockList = UndefinedList]

\* C10: for every setting of the toggles, a request with an entry of the
\* caller's decoded list in its path, or an entry of the caller's encoded
\* list in a field checked for the encoded list, is rejected; every entry
\* the lists hold without the caller's lists they hold with them, and every
\* request rejected without the caller's lists is rejected with them.
C10_ExtraListsOnlyAdd ==
    /\ Range(Constructor(WithoutBlockLists(options)).blocklists.encoded)
          \subseteq Range(fw.blocklists.encoded)
    /\ Range(Constructor(WithoutBlockLists(options)).blocklists.decoded)
          \subseteq Range(fw.blocklists.decoded)
    /\ \A i \in Evaluations :
          (/\ Arrived(i)
           /\ \/ ExtraEntryOccurs(options, req[i])
              \/ BlocklistedUrl(Constructor(WithoutBlockLists(options)),
                                req[i]))
              => StoppedAtBlocklist(i)

C10_Witness ==
    \E i \in Evaluations :
        /\ options.allow = Toggles
        /\ options.decodedUrlBlockList = <<EXE, <<";">>>>
        /\ options.encodedUrlBlockList = UndefinedList
        /\ Occurs(req[i].path, <<";">>)
        /\ pc[i] = "done"
        /\ error[i].reason = "blocklisted-content"
        /\ Forbidden403(res[i])

---------------------------------------------------------------------------
(* Claims C11 - C20.                                                       *)

\* an entry of the instance's encoded list occurs in field f of request r
EncodedEntryIn(f, r, field) ==
    \E k \in 1..Len(f.blocklists.encoded) :
        Occurs(r[field], f.blocklists.encoded[k])

\* an entry of the instance's decoded list occurs in field f of request r
DecodedEntryIn(f, r, field) ==
    \E k \in 1..Len(f.blocklists.decoded) :
        Occurs(r[field], f.blocklists.decoded[k])

EncodedCheckedFields == {"url", "path", "originalUrl", "route", "baseUrl"}

HasDotSegment(P) ==
    /\ P # Undefined
    /\ \E a \in 1..Len(P) : \E b \in a..Len(P) :
          /\ SubSeq(P, a, b) \in {<<".">>, <<".", ".">>}
          /\ a = 1 \/ P[a - 1] = "/"
          /\ b = Len(P) \/ P[b + 1] = "/"

NormalizedCheckedFields == {"url", "originalUrl", "path", "route"}

\* the normalization check ran for evaluation i
NormalizationRan(i) == Len(gates[i]) >= 4

\* C12: isNormalized(P) is false exactly when splitting P on "/" yields a
\* segment equal to "." or ".."; an absent and an empty P are normalized.
\* It is stated of every field of every request that isNormalized read.
C12_IsNormalizedAgrees ==
    /\ isNormalized(Undefined)
    /\ isNormalized(<<>>)
    /\ \A i \in Evaluations :
          NormalizationRan(i) =>
              \A field \in NormalizedCheckedFields :
                  isNormalized(req[i][field])
                      <=> ~HasDotSegment(req[i][field])

C12_Witness ==
    \E i \in Evaluations :
        /\ NormalizationRan(i)
        /\ req[i].path = <<"x", "/", ".", ".">>
        /\ req[i].url = <<"/", "x">>
        /\ ~isNormalized(req[i].path)
        /\ error[i].reason = "non-normalized-path"
        /\ pc[i] = "done"

\* evaluation i was stopped at the normalization check or before it, and
\* ends with the 403 response
StoppedAtNormalization(i) ==
    /\ nextCalls[i] = 0
    /\ Len(gates[i]) <= 4
    /\ pc[i] \in {"blocklist", "hosts", "normalized", "catch", "done"}
    /\ pc[i] = "done" => Forbidden403(res[i])

\* C13: whatever the options, a request with a "." or ".." segment in one
\* of url, originalUrl, path, route is rejected with 403, also when the other
\* three fields are normalized.
C13_NormalizationAlwaysOn ==
    \A i \in Evaluations :
        (/\ Arrived(i)
         /\ \E field \in NormalizedCheckedFields :
               HasDotSegment(req[i][field]))
            => StoppedAtNormalization(i)

C13_Witness ==
    \E i \in Evaluations :
        /\ options.allow = Toggles
        /\ options.unsafeAllowAnyHttpMethod
        /\ HasDotSegment(req[i].route)
        /\ \A field \in NormalizedCheckedFields \ {"route"} :
              ~HasDotSegment(req[i][field])
        /\ error[i].reason = "non-normalized-path"
        /\ pc[i] = "done"
        /\ Forbidden403(res[i])

\* the url holds a character outside U+0020 .. U+007E
HasNonPrintable(url) ==
    /\ url # Undefined
    /\ \E k \in 1..Len(url) : CharCode[url[k]] \notin 32..126

\* the printable-characters check ran for evaluation i
PrintableRan(i) == Len(gates[i]) >= 5

\* C14: whatever the options, a request whose url holds a character outside
\* U+0020 .. U+007E is rejected with 403 and next is not invoked; the
\* printable-characters check fails for such urls alone, so an absent and an
\* empty url pass it.
C14_PrintableAlwaysOn ==
    \A i \in Evaluations :
        /\ (Arrived(i) /\ HasNonPrintable(req[i].url))
              => /\ nextCalls[i] = 0
                 /\ pc[i] # "next"
                 /\ pc[i] = "done" => Forbidden403(res[i])
        /\ PrintableRan(i) =>
              (error[i].reason = "non-printable-characters"
                  <=> HasNonPrintable(req[i].url))
        /\ (PrintableRan(i) /\ req[i].url \in {Undefined, <<>>})
              => error[i].reason # "non-printable-characters"

C14_Witness ==
    \E i \in Evaluations :
        /\ options.allow = Toggles
        /\ req[i].url = <<"~", "DEL">>
        /\ PrintableRan(i)
        /\ error[i].reason = "non-printable-characters"
        /\ pc[i] = "done"
        /\ Forbidden403(res[i])

\* the function the instance was given for hostnames: that of
\* options.allowedHostnames, or the default one, which returns true
ConfiguredHostnameFn ==
    IF options.defined /\ options.allowedHostnames # UndefinedPredicate
    THEN options.allowedHostnames.condition
    ELSE "any"

\* the hostname check ran for evaluation i
HostnameRan(i) == Len(gates[i]) >= 3

\* C15: the hostname check rejects a request as untrusted exactly when the
\* request has a hostname and the configured predicate returns false for
\* it; a request without a hostname passes the check, and so does every
\* hostname under the default predicate.
C15_HostnameGate ==
    \A i \in Evaluations :
        HostnameRan(i) =>
            /\ error[i].reason = "untrusted-host"
                  <=> /\ req[i].hostname # Undefined
                      /\ FnResult(ConfiguredHostnameFn, req[i].hostname)
                            = "false"
            /\ req[i].hostname = Undefined
                  => error[i].reason \notin {"untrusted-host",
                                             "predicate-fault"}
            /\ ConfiguredHostnameFn = "any"
                  => error[i].reason \notin {"untrusted-host",
                                             "predicate-fault"}
            /\ error[i].reason = "untrusted-host"
                  => /\ nextCalls[i] = 0
                     /\ pc[i] \in {"catch", "done"}
                     /\ pc[i] = "done" => Forbidden403(res[i])

C15_Witness ==
    \E i \in Evaluations :
        /\ ConfiguredHostnameFn = "isLocalhost"
        /\ req[i].hostname = EVIL_TEST
        /\ HostnameRan(i)
        /\ error[i].reason = "untrusted-host"
        /\ pc[i] = "done"
        /\ Forbidden403(res[i])

\* the options without the four header and parameter predicates, the
\* request without its headers and parameters
WithoutFieldPredicates(o) ==
    [o EXCEPT !.allowedHeaderNames = UndefinedPredicate,
              !.allowedHeaderValues = UndefinedPredicate,
              !.allowedParameterNames = UndefinedPredicate,
              !.allowedParameterValues = UndefinedPredicate]

WithoutFields(r) == WithHeadersAndQuery(r, <<>>, <<>>)

\* a header or parameter of r is refused by the predicate the options give
\* for its name or for its value
CarriesRefusedField(o, r) ==
    \/ /\ o.allowedHeaderNames # UndefinedPredicate
       /\ \E k \in 1..Len(r.headers) :
             FnResult(o.allowedHeaderNames.condition, r.headers[k][1])
                = "false"
    \/ /\ o.allowedHeaderValues # UndefinedPredicate
       /\ \E k \in 1..Len(r.headers) :
             FnResult(o.allowedHeaderValues.condition, r.headers[k][2])
                = "false"
    \/ /\ o.allowedParameterNames # UndefinedPredicate
       /\ \E k \in 1..Len(r.query) :
             FnResult(o.allowedParameterNames.condition, r.query[k][1])
                = "false"
    \/ /\ o.allowedParameterValues # UndefinedPredicate
       /\ \E k \in 1..Len(r.query) :
             FnResult(o.allowedParameterValues.condition, r.query[k][2])
                = "false"

C17_RefusedFieldsAreRejected ==
    \A i \in Evaluations :
        (/\ options.defined
         /\ Arrived(i)
         /\ CarriesRefusedField(options, req[i]))
            => /\ nextCalls[i] = 0
               /\ pc[i] = "done" => Forbidden403(res[i])

\* C18: every request given to the middleware, whatever came before it, is
\* decided as one instance constructed once from the options decides it:
\* the instance constructed for it is that instance, next is invoked exactly
\* when the request fails none of its checks, and the request is rejected
\* for the first check it fails otherwise; equal requests of one sequence
\* are decided alike.
C18_FreshInstancesDecideAlike ==
    /\ \A i \in Evaluations :
          /\ Arrived(i) => fw = Constructor(options)
          /\ pc[i] = "done" =>
                /\ nextCalls[i] = 1
                      <=> FirstFailure(Constructor(options), req[i]) = "none"
                /\ nextCalls[i] = 0 =>
                      /\ error[i].reason
                            = FirstFailure(Constructor(options), req[i])
                      /\ Forbidden403(res[i])
    /\ \A i, j \in Evaluations :
          (pc[i] = "done" /\ pc[j] = "done" /\ req[i] = req[j])
              => nextCalls[i] = nextCalls[j]

\* a second request was rejected after a first was admitted, under options
\* that change the lists
C18_Witness ==
    /\ options.defined
    /\ options.allow = {"allowSemicolon"}
    /\ pc[1] = "done" /\ nextCalls[1] = 1
    /\ req[1].url = <<"/", ";">>
    /\ pc[2] = "done" /\ nextCalls[2] = 0
    /\ error[2].reason = "non-normalized-path"
    /\ Forbidden403(res[2])

\* C19: the instance is the one the constructor built in every state, and
\* no step of an evaluation (a check, next(), the rejection) changes its
\* lists, its method set, its predicates, or the options.
C19_ConfigurationFrozen ==
    /\ [](fw = Constructor(options))
    /\ [][fw' = fw /\ options' = options]_vars

\* both outcomes were reached on an instance with lists and a method set of
\* the caller's
C19_Witness ==
    \E i \in Evaluations :
        /\ options.defined
        /\ options.allow = {"allowSemicolon"}
        /\ options.allowedHttpMethods = <<POST, GET>>
        /\ fw = Constructor(options)
        /\ pc[i] = "done"
        /\ error[i].reason = "blocklisted-content"
        /\ Forbidden403(res[i])

\* C20: with the links of several evaluations on one instance interleaved,
\* each finished evaluation has the outcome its request has alone: next
\* invoked once when the request fails no check, and otherwise the 403
\* written once to its own Response for the first check it fails; an
\* evaluation that was not rejected has nothing written to its Response.
C20_InterleavingKeepsOutcomes ==
    \A i \in Evaluations :
        /\ pc[i] = "done" =>
              /\ nextCalls[i] = 1 <=> FirstFailure(fw, req[i]) = "none"
              /\ nextCalls[i] = 0 =>
                    /\ error[i].reason = FirstFailure(fw, req[i])
                    /\ Forbidden403(res[i])
                    /\ res[i].writes = 1
        /\ error[i].reason = "none" => res[i] = NoResponse
        /\ pc[i] # "done" => res[i] = NoResponse
        /\ nextCalls[i] <= 1

\* a rejected request whose 403 is not written yet, and a request that
\* passed every check whose next() is not invoked yet
C20_Witness ==
    \E i, j \in Evaluations :
        /\ i # j
        /\ pc[i] = "catch" /\ error[i].reason = "blocklisted-content"
        /\ pc[j] = "next" /\ FirstFailure(fw, req[j]) = "none"

---------------------------------------------------------------------------
(* Claims C21 - C30.                                                       *)

\* the evaluations whose Response was written to
Written == {i \in Evaluations : res[i].writes > 0}

\* C21: every response written on a rejection is the same one: status 403,
\* Content-Type: text/plain and the body FORBIDDEN, whichever check rejected
\* and whatever value offended; the body is the fixed word, never the
\* reason or the value; the errors are logged, one line for every rejection, when
\* logToConsole is true and never otherwise.
C21_RejectionsLookAlike ==
    /\ \A i \in Written :
          /\ res[i] = reject(NoResponse)
          /\ res[i].body = "FORBIDDEN"
          /\ res[i].body # error[i].reason
    /\ \A i, j \in Written : res[i] = res[j]
    /\ Len(log) = IF fw.logToConsole THEN Cardinality(Written) ELSE 0
    /\ \A k \in 1..Len(log) : \E i \in Written : log[k] = error[i]

\* two requests rejected by different checks for different values, both
\* logged, with the same response
C21_Witness ==
    \E i, j \in Evaluations :
        /\ pc[i] = "done" /\ error[i].reason = "method-not-allowed"
        /\ pc[j] = "done" /\ error[j].reason = "untrusted-host"
        /\ error[i].value # error[j].value
        /\ res[i] = res[j] /\ Forbidden403(res[i])
        /\ Len(log) = 2 /\ log[1] # log[2]

\* "true" or "false"
Boolean(b) == IF b THEN "true" ELSE "false"

\* C22: when and, or or not builds a predicate from predicates[p] and an
\* input, a Predicate or a raw function, then on every value on which the
\* operands return, the test of the new predicate is the conjunction, the
\* disjunction or the negation of the tests of its operands; and the step
\* leaves every predicate built before, and the result of its test on
\* every value, as they were.
C22_CombinatorsArePointwise ==
    [][/\ \A k \in DOMAIN predicates :
            /\ k \in DOMAIN predicates'
            /\ predicates'[k] = predicates[k]
            /\ \A x \in PredicateValues :
                  test(predicates', predicates'[k], x)
                      = test(predicates, predicates[k], x)
       /\ \A p \in DOMAIN predicates : \A x \in PredicateValues :
            LET r == test(predicates', predicates'[Len(predicates')], x)
                a == test(predicates, predicates[p], x)
            IN  /\ (Not(p) /\ a # "throw") => r = Boolean(a # "true")
                /\ \A input \in PredicateInputs :
                      LET q == isInstance(predicates, input)
                          b == test(predicates, q, x)
                      IN  (a # "throw" /\ b # "throw") =>
                            /\ And(p, input) =>
                                  r = Boolean(a = "true" /\ b = "true")
                            /\ Or(p, input) =>
                                  r = Boolean(a = "true" \/ b = "true")
      ]_vars

\* the first operand of the combinator predicates[k]
ThisOf(k) == predicates[predicates[k].condition.this]

\* an and of a predicate with a raw function that is true of one value and
\* false of another one, next to the negation of a predicate
C22_Witness ==
    \E k, n \in DOMAIN predicates :
        /\ predicates[k].condition.body = "and"
        /\ predicates[k].condition.input = FnInput("notEvil")
        /\ ThisOf(k).condition.fn = "isLocalhost"
        /\ test(predicates, predicates[k], LOCALHOST) = "true"
        /\ test(predicates, predicates[k], EVIL) = "false"
        /\ predicates[n].condition.body = "not"
        /\ predicates[n].condition.this = k
        /\ test(predicates, predicates[n], EVIL) = "true"

\* the configured predicate throws when it is tested on the hostname of
\* the request of evaluation i
PredicateFaults(i) ==
    /\ HostnameRan(i)
    /\ req[i].hostname # Undefined
    /\ FnResult(ConfiguredHostnameFn, req[i].hostname) = "throw"

\* C23 (as stated): when the allowedHostnames predicate throws while it is
\* tested for a request, next is never invoked, what was thrown does not
\* leave firewall(), and the evaluation ends with the 403 written.
C23_PredicateFaultsFailClosed ==
    \A i \in Evaluations :
        PredicateFaults(i) =>
            /\ nextCalls[i] = 0
            /\ pc[i] \in {"catch", "done"}
            /\ pc[i] = "done" => Forbidden403(res[i])

\* evaluation i has ended, for a GET request, on an instance constructed
\* with allowBackSlash, allowUrlEncodedSlash and allowUrlEncodedDoubleSlash
JapaneseCase(i) ==
    /\ pc[i] = "done"
    /\ req[i].method = GET
    /\ options.defined /\ JapaneseToggles \subseteq options.allow

\* no check rejected the request of evaluation i, and next was invoked
AllowedThrough(i) ==
    /\ nextCalls[i] = 1
    /\ gates[i] = GateOrder
    /\ error[i].reason \in {"none", "downstream-error"}

C25_ShortCircuit ==
    /\ [](\A i \in Evaluations :
            Arrived(i) =>
              /\ ForbiddenHttpMethod(fw, req[i]) =>
                    gates[i] = <<"method">> /\ hostTests[i] = 0
              /\ BlocklistedUrl(fw, req[i]) =>
                    Len(gates[i]) <= 2 /\ hostTests[i] = 0
              /\ error[i].reason \notin {"none", "downstream-error"} =>
                    error[i].reason \in GateReasons(gates[i][Len(gates[i])]))
    /\ [][\A i \in Evaluations :
            error[i] # NoError =>
                gates'[i] = gates[i] /\ hostTests'[i] = hostTests[i]]_vars

\* a request from a host the configured predicate refuses was rejected by
\* the blocklist check, and the predicate was not invoked
C25_Witness ==
    \E i \in Evaluations :
        /\ pc[i] = "done"
        /\ fw.allowedHostnames = PredicateOf("isLocalhost")
        /\ req[i].hostname = EVIL_TEST
        /\ error[i].reason = "blocklisted-content"
        /\ gates[i] = <<"method", "blocklist">>
        /\ hostTests[i] = 0
        /\ Forbidden403(res[i])

\* the toggles that are not true in the options
TogglesNotTrue == IF options.defined THEN Toggles \ options.allow ELSE Toggles

\* the toggles whose groups are put in both lists
BothListsToggles ==
    {"allowSemicolon", "allowUrlEncodedSlash", "allowUrlEncodedDoubleSlash",
     "allowBackSlash", "allowNull", "allowUrlEncodedLineFeed",
     "allowUrlEncodedCarriageReturn"}

\* what toggle X keeps in the encoded list while it is not true
EncodedGroup(X) ==
    IF X = "allowUrlEncodedPercent" THEN {<<"%", "2", "5">>}
    ELSE ToggleGroup(X)

\* what toggle X keeps in the decoded list while it is not true
DecodedGroup(X) ==
    IF X = "allowUrlEncodedPercent" THEN {<<"%">>}
    ELSE IF X \in BothListsToggles THEN ToggleGroup(X)
    ELSE {}

\* C26: for every combination of the eleven toggles and no extra lists, the
\* encoded list holds exactly the literals of the groups of the toggles
\* that are not true, the decoded list exactly those of the seven groups
\* put in both lists and "%" for allowUrlEncodedPercent; "%25", "%2e",
\* "%2E", U+2028 and U+2029 are never in the decoded list and "%" is never
\* in the encoded list.
C26_ListsFollowToggles ==
    /\ Range(fw.blocklists.encoded)
            = UNION {EncodedGroup(X) : X \in TogglesNotTrue}
    /\ Range(fw.blocklists.decoded)
            = UNION {DecodedGroup(X) : X \in TogglesNotTrue}
    /\ Range(fw.blocklists.decoded)
            \cap {<<"%", "2", "5">>, <<"%", "2", "e">>, <<"%", "2", "E">>,
                  <<"LS">>, <<"PS">>} = {}
    /\ <<"%">> \notin Range(fw.blocklists.encoded)

\* an instance with six toggles true took a request; the lists hold the
\* groups of the five other toggles
C26_Witness ==
    \E i \in Evaluations :
        /\ options.defined
        /\ options.allow =
              {"allowSemicolon", "allowUrlEncodedSlash",
               "allowUrlEncodedDoubleSlash", "allowBackSlash",
               "allowUrlEncodedPeriod", "allowUrlEncodedLineSeparator"}
        /\ Range(fw.blocklists.encoded) =
              {<<"NUL">>, <<"%", "0", "0">>, <<"LF">>, <<"%", "0", "a">>,
               <<"%", "0", "A">>, <<"CR">>, <<"%", "0", "d">>,
               <<"%", "0", "D">>, <<"%", "2", "5">>, <<"PS">>}
        /\ Range(fw.blocklists.decoded) =
              {<<"NUL">>, <<"%", "0", "0">>, <<"LF">>, <<"%", "0", "a">>,
               <<"%", "0", "A">>, <<"CR">>, <<"%", "0", "d">>,
               <<"%", "0", "D">>, <<"%">>}
        /\ pc[i] = "done"

\* how many of the five checks of the synchronous class request r fails
SyncFailureCount(f, r) ==
    Cardinality({g \in {"method", "blocklist", "hostname", "normalization",
                        "printable"} :
        \/ g = "method" /\ ForbiddenHttpMethod(f, r)
        \/ g = "blocklist" /\ SyncBlocklistedUrl(f, r)
        \/ g = "hostname" /\ UntrustedHost(f, r) = "reject"
        \/ g = "normalization" /\ ~isNormalizedRequest(r)
        \/ g = "printable" /\ ~containsOnlyPrintableAsciiCharacters(r.url)})

\* C27 (as stated): in the synchronous firewall(), a request that fails any
\* of the five checks, a non-normalized path and a non-printable character
\* in the URL among them, has the 403 response written and next is not
\* called.
C27_SyncFailureGives403 ==
    \A i \in Evaluations :
        (Arrived(i) /\ SyncFailureCount(fw, req[i]) > 0) =>
            /\ nextCalls[i] = 0
            /\ res[i].statusCode = 403
            /\ res[i].ended

\* a chain was started and has not ended
InFlight == \E i \in Evaluations : pc[i] \notin {"idle", "done", "escaped"}

\* the fields isNormalized is called with
NormalizedFieldsOf(r) == {r.url, r.originalUrl, r.path, r.route}

\* C28 (as stated): every evaluation ends, in exactly one of the two
\* outcomes, next invoked or the 403 written; and in the loop of
\* isNormalized the cursor i is moved to a smaller value, not below -1, in
\* every iteration.
C28_EndsInOneOutcome ==
    /\ InFlight ~> ~InFlight
    /\ [](\A i \in Evaluations :
            /\ pc[i] \in {"done", "escaped"} =>
                  \/ nextCalls[i] = 1 /\ res[i] = NoResponse
                  \/ nextCalls[i] = 0 /\ Forbidden403(res[i])
                                      /\ res[i].writes = 1
            /\ \A s \in NormalizedFieldsOf(req[i]) \ {Undefined} :
                  \A k \in 1..Len(s) :
                      /\ lastIndexOf(s, "/", k - 1) < k
                      /\ lastIndexOf(s, "/", k - 1) >= -1)

\* C29 (as stated): a 403 is written only for a request that one of the
\* five checks rejected; for a request that passed them all nothing is
\* written, also when the handler invoked through next() throws.
C29_Only403WhenGateRejected ==
    \A i \in Evaluations :
        res[i].writes > 0 =>
            /\ FailureCount(fw, req[i]) > 0
            /\ error[i].reason \in UNION {GateReasons(g) : g \in Range(GateOrder)}
            /\ nextCalls[i] = 0

\* literal L occurs in one of the five fields the encoded list is put to
AnyFieldHolds(r, L) ==
    \E s \in {r.url, r.path, r.originalUrl, r.baseUrl, r.route} : Occurs(s, L)

=============================================================================
